---- MODULE Spec2Model ----
(***************************************************************************)
(* State-transition core of go-fusion: the per-account multi-asset ledger  *)
(* (core/state/fsnstate.go) and the FsnCall dispatcher handleFsnCall       *)
(* (core/state_transition part of core/vm/fsncontract.go).                 *)
(*                                                                         *)
(* A TimeLock is held as its projection "value usable at instant t", a     *)
(* function from Time to integers; the canonical item list of a TimeLock  *)
(* is the list of maximal runs of equal non-zero value (Items).            *)
(***************************************************************************)
EXTENDS Integers, Sequences, FiniteSets, TLC

(* ------------------------------ bounds --------------------------------- *)
\* last instant of the modelled time line; stands for MAX_U64
MaxTime == 2
\* largest Value / amount / size a call carries
MaxValue == 2
\* last block height the chain reaches
MaxHeight == 3
\* most notations ever generated
MaxNotations == 2
\* largest amount of one asset the accounts hold together at one instant
MaxHolding == 3
\* largest SwapSize of a swap
MaxSwapSize == 2

(* ----------------------------- constants ------------------------------- *)
TimeLockForever == MaxTime
TimeLockNow == 0
Time == 0..MaxTime

Accounts == {"a1", "a2"}
NoAddress == "0x0"
SystemAssetID == "FSN"
OwnerUSANAssetID == "USAN"
\* a user asset registered before the first modelled block, and one GenAsset can make
UserAssetID == "AST"
NewAssetID == "GEN"
AssetIDs == {SystemAssetID, UserAssetID, NewAssetID}
SwapIDs == {"s1"}

\* a function with no entries (an empty registry)
EmptyMap == [x \in {} |-> 0]
\* the registry m with key k set to v
Put(m, k, v) == [x \in (DOMAIN m) \cup {k} |-> IF x = k THEN v ELSE m[x]]

MaxUint64(a, b) == IF a > b THEN a ELSE b

(* --------------------------- TimeLock algebra -------------------------- *)
EmptyTimeLock == [t \in Time |-> 0]

TimeLockItem(start, end, value) == [StartTime |-> start, EndTime |-> end, Value |-> value]

\* TimeLockItem.IsValid: start <= end and value > 0
ItemIsValid(item) == item.StartTime <= item.EndTime /\ item.Value > 0

NewTimeLock(item) ==
  [t \in Time |-> IF item.StartTime <= t /\ t <= item.EndTime THEN item.Value ELSE 0]

TLAdd(x, y) == [t \in Time |-> x[t] + y[t]]

TLSub(x, y) == [t \in Time |-> x[t] - y[t]]

TLIsEmpty(x) == \A t \in Time : x[t] = 0

RECURSIVE MinOver(_, _, _)
MinOver(x, s, e) ==
  IF s = e THEN x[s]
  ELSE LET m == MinOver(x, s + 1, e) IN IF x[s] < m THEN x[s] ELSE m

\* the largest v such that the item (start, end, v) is covered by x
GetSpendableValue(x, start, end) ==
  IF start > end THEN 0
  ELSE LET m == MinOver(x, start, end) IN IF m < 0 THEN 0 ELSE m

\* Cmp against a one-item requirement: sign of spendable - required
TLCmp(x, item) ==
  LET v == GetSpendableValue(x, item.StartTime, item.EndTime)
  IN IF v < item.Value THEN -1 ELSE IF v = item.Value THEN 0 ELSE 1

\* last instant of the canonical item (maximal run of equal value) holding t
RECURSIVE RunEnd(_, _)
RunEnd(x, t) ==
  IF t = MaxTime THEN t
  ELSE IF x[t + 1] = x[t] THEN RunEnd(x, t + 1) ELSE t

\* ClearExpired drops the items whose end lies before timestamp
ClearExpired(x, timestamp) ==
  [t \in Time |-> IF RunEnd(x, t) < timestamp THEN 0 ELSE x[t]]

GetTimeLock(value, start, end) == NewTimeLock(TimeLockItem(start, end, value))

GetSurplusTimeLock(value, start, end, timestamp) ==
  TLSub(NewTimeLock(TimeLockItem(timestamp, TimeLockForever, value)),
        NewTimeLock(TimeLockItem(MaxUint64(start, timestamp), end, value)))

IsWholeAsset(start, end, timestamp) == start <= timestamp /\ end = TimeLockForever

\* canonical item list of a TimeLock
RECURSIVE ItemsFrom(_, _)
ItemsFrom(x, t) ==
  IF t > MaxTime THEN <<>>
  ELSE LET e == RunEnd(x, t)
       IN (IF x[t] = 0 THEN <<>> ELSE <<TimeLockItem(t, e, x[t])>>) \o ItemsFrom(x, e + 1)

Items(x) == ItemsFrom(x, 0)

(* ------------------------------- state --------------------------------- *)
VARIABLES
  balances,          \* Account.BalancesHash/BalancesVal per address
  timeLockBalances,  \* Account.TimeLockBalancesHash/Val per address
  notations,         \* Account.Notaion per address
  notationCount,     \* notationPersist.Count under NotationKeyAddress
  notationLookup,    \* notation -> address records under NotationKeyAddress
  assets,            \* assetPersist records under AssetKeyAddress
  swaps,             \* swapPersist records under SwapKeyAddress
  multiSwaps,        \* multiSwapPersist records under MultiSwapKeyAddress
  tickets,           \* StateDB.tickets
  reports,           \* the reports stored under ReportKeyAddress
  height,            \* evm.Context.BlockNumber
  timestamp,         \* evm.Context.ParentTime
  log,               \* the log entry the last dispatcher call appended (NoLog: none)
  calcInput,         \* the notation number handed to CalcNotationDisplay
  calcOutput,        \* what CalcNotationDisplay returned for it
  accountData,       \* the state objects of pool.currentState, the asset entries of each
  poolAll,           \* pool.all: the pending transactions, each with its sender
  keyStorage,        \* the storage slots and the nonce of the state object of a key address
  ticketStore,       \* the blob at TicketKeyAddress, StateDB.ticketsHash, cachedTicketSlice
  adders             \* the goroutines inside cachedTicketSlice.Add: the hash each is about to insert

vars == <<balances, timeLockBalances, notations, notationCount, notationLookup,
          assets, swaps, multiSwaps, tickets, reports, height, timestamp, log,
          calcInput, calcOutput, accountData, poolAll, keyStorage, ticketStore, adders>>

(* ------------------------- StateDB: balances --------------------------- *)
GetBalance(bal, assetID, addr) == bal[addr][assetID]

\* stateObject.AddBalance: a zero amount only touches the account
AddBalance(bal, addr, assetID, amount) ==
  IF amount = 0 THEN bal
  ELSE [bal EXCEPT ![addr][assetID] = @ + amount]

\* stateObject.SubBalance
SubBalance(bal, addr, assetID, amount) ==
  IF amount = 0 THEN bal
  ELSE [bal EXCEPT ![addr][assetID] = @ - amount]

SetBalance(bal, addr, assetID, amount) == [bal EXCEPT ![addr][assetID] = amount]

GetTimeLockBalance(tlb, assetID, addr) == tlb[addr][assetID]

\* stateObject.AddTimeLockBalance: Add, then ClearExpired(timestamp)
AddTimeLockBalance(tlb, addr, assetID, amount, ts) ==
  IF TLIsEmpty(amount) THEN tlb
  ELSE [tlb EXCEPT ![addr][assetID] = ClearExpired(TLAdd(@, amount), ts)]

\* stateObject.SubTimeLockBalance: Sub, then ClearExpired(timestamp)
SubTimeLockBalance(tlb, addr, assetID, amount, ts) ==
  IF TLIsEmpty(amount) THEN tlb
  ELSE [tlb EXCEPT ![addr][assetID] = ClearExpired(TLSub(@, amount), ts)]

SetTimeLockBalance(tlb, addr, assetID, amount) == [tlb EXCEPT ![addr][assetID] = amount]

(* ------------------------- StateDB: notations -------------------------- *)
RECURSIVE Xor(_, _)
Xor(a, b) ==
  IF a = 0 THEN b
  ELSE IF b = 0 THEN a
  ELSE 2 * Xor(a \div 2, b \div 2) + (((a % 2) + (b % 2)) % 2)

CalcNotationDisplay(notation) ==
  IF notation = 0 THEN notation
  ELSE notation * 100 + (Xor(Xor(notation, 8192), 13) % 100)

GetNotation(nots, addr) == nots[addr]

\* GetAddressByNotation: NoAddress stands for the returned error
GetAddressByNotation(lookup, notation) ==
  IF notation \notin DOMAIN lookup THEN NoAddress
  ELSE lookup[notation]

setNotationToAddressLookup(lookup, notation, address) == Put(lookup, notation, address)

(* ------------------- StateDB: assets, swaps, multi-swaps --------------- *)
\* GetAsset / GetSwap / GetMultiSwap succeed on a stored record that is not deleted
\* a registry in which no ID is ever found
NeverHasAsset(reg, id) == FALSE

HasAsset(reg, id) == id \in DOMAIN reg /\ ~reg[id].Deleted
GetAsset(reg, id) == reg[id].Asset
UpdateAsset(reg, asset) == Put(reg, asset.ID, [Deleted |-> FALSE, Asset |-> asset])

HasSwap(reg, id) == id \in DOMAIN reg /\ ~reg[id].Deleted
GetSwap(reg, id) == reg[id].Swap
UpdateSwap(reg, swap) == Put(reg, swap.ID, [Deleted |-> FALSE, Swap |-> swap])
\* a removal that writes the record back without the flag
RemoveSwapUnflagged(reg, id) == Put(reg, id, [Deleted |-> FALSE, Swap |-> reg[id].Swap])

RemoveSwap(reg, id) == Put(reg, id, [Deleted |-> TRUE, Swap |-> reg[id].Swap])

HasMultiSwap(reg, id) == id \in DOMAIN reg /\ ~reg[id].Deleted
GetMultiSwap(reg, id) == reg[id].Swap
UpdateMultiSwap(reg, swap) == Put(reg, swap.ID, [Deleted |-> FALSE, Swap |-> swap])
RemoveMultiSwap(reg, id) == Put(reg, id, [Deleted |-> TRUE, Swap |-> reg[id].Swap])

(* --------------------------- StateDB: tickets -------------------------- *)
\* the ticket bodies of every owner, in storage order
RECURSIVE AllTicketBodies(_)
AllTicketBodies(ts) ==
  IF ts = << >> THEN << >>
  ELSE [i \in 1..Len(Head(ts).Tickets) |->
          [ID |-> Head(ts).Tickets[i].ID, Owner |-> Head(ts).Owner,
           Height |-> Head(ts).Tickets[i].Height,
           StartTime |-> Head(ts).Tickets[i].StartTime,
           ExpireTime |-> Head(ts).Tickets[i].ExpireTime]] \o AllTicketBodies(Tail(ts))

IsTicketExist(ts, id) ==
  \E i \in 1..Len(AllTicketBodies(ts)) : AllTicketBodies(ts)[i].ID = id

\* TicketsDataSlice.AddTicket: under the owner's entry, or as a new entry
AddTicket(ts, ticket) ==
  LET body == [ID |-> ticket.ID, Height |-> ticket.Height,
               StartTime |-> ticket.StartTime, ExpireTime |-> ticket.ExpireTime]
  IN IF \E i \in 1..Len(ts) : ts[i].Owner = ticket.Owner
     THEN [i \in 1..Len(ts) |->
             IF ts[i].Owner = ticket.Owner
             THEN [ts[i] EXCEPT !.Tickets = Append(@, body)] ELSE ts[i]]
     ELSE Append(ts, [Owner |-> ticket.Owner, Tickets |-> <<body>>])

(* ------------------------------- log ----------------------------------- *)
NoLog == [func |-> "none", err |-> "", kind |-> "", id |-> ""]

\* addLog(typ, param, keyValues...): the function tag with the key/values the call
\* attaches: "Error" (err, "" when the call succeeds), "LockType" (kind), and the
\* "AssetID" / "SwapID" / "TicketID" it names (id).
AddLog(func, err, kind, id) ==
  [func |-> func, err |-> err, kind |-> kind, id |-> id]

(* ------------------------------- Init ---------------------------------- *)
GenesisBalance(a, id) ==
  IF id = SystemAssetID THEN (IF a = "a1" THEN 2 ELSE 0)
  ELSE IF id = UserAssetID THEN (IF a = "a2" THEN 2 ELSE 0)
  ELSE 0

\* Account.BalancesHash and Account.TimeLockBalancesHash of a state object: the
\* asset ids that have an entry, in the order the entries were appended
NewAccountData == [BalancesHash |-> << >>, TimeLockBalancesHash |-> << >>]

\* the state objects of the first modelled block: the two accounts with the entry of
\* the asset each holds, and the asset registry's key address
GenesisAccountData ==
  Put(Put(Put(EmptyMap, "a1", [NewAccountData EXCEPT !.BalancesHash = <<SystemAssetID>>]),
          "a2", [NewAccountData EXCEPT !.BalancesHash = <<UserAssetID>>]),
      "AssetKeyAddress", NewAccountData)

\* the ledger of the first modelled block
\* common.Hash{}: the hash of nothing; crypto.Keccak256Hash(data) is taken to be
\* injective, so a hash is named by the bytes it was taken of
ZeroHash == [zero |-> TRUE, of |-> << >>]

maxCachedTicketsCount == 101

\* cachedTicketSlice as the process starts: an empty ring
NewCachedTicketSlice ==
  [tickets |-> [i \in 0..(maxCachedTicketsCount - 1) |->
                  [hash |-> ZeroHash, tickets |-> << >>]],
   start |-> 0, end |-> 0]

\* the blob at TicketKeyAddress, StateDB.ticketsHash and the ring of a new chain
GenesisTicketStore ==
  [data |-> << >>, ticketsHash |-> ZeroHash, cache |-> NewCachedTicketSlice]

Genesis ==
  /\ balances = [a \in Accounts |-> [id \in AssetIDs |-> GenesisBalance(a, id)]]
  /\ timeLockBalances = [a \in Accounts |-> [id \in AssetIDs |-> EmptyTimeLock]]
  /\ notations = [a \in Accounts |-> 0]
  /\ notationCount = 0
  /\ notationLookup = EmptyMap
  /\ assets = Put(Put(EmptyMap, SystemAssetID,
                      [Deleted |-> FALSE,
                       Asset |-> [ID |-> SystemAssetID, Owner |-> NoAddress,
                                  Total |-> 2, CanChange |-> FALSE]]),
                  UserAssetID,
                  [Deleted |-> FALSE,
                   Asset |-> [ID |-> UserAssetID, Owner |-> "a2",
                              Total |-> 2, CanChange |-> TRUE]])
  /\ swaps = EmptyMap
  /\ multiSwaps = EmptyMap
  /\ tickets = << >>
  /\ reports = {}
  /\ height = 1
  /\ timestamp = 0
  /\ log = NoLog
  /\ accountData = GenesisAccountData
  /\ poolAll = {}
  /\ keyStorage = [slots |-> EmptyMap, nonce |-> 0]
  /\ ticketStore = GenesisTicketStore
  /\ adders = [p \in {"g1", "g2"} |-> ZeroHash]

Init ==
  /\ Genesis
  /\ calcInput = << >>
  /\ calcOutput = << >>

(* ----------------------------- block clock ----------------------------- *)
\* the next block: its parent time is later than the previous parent time
NewBlock ==
  /\ height < MaxHeight
  /\ timestamp < MaxTime - 1
  /\ height' = height + 1
  /\ \E t \in (timestamp + 1)..(MaxTime - 1) : timestamp' = t
  /\ UNCHANGED <<balances, timeLockBalances, notations, notationCount, notationLookup,
                 assets, swaps, multiSwaps, tickets, log, reports,
                 calcInput, calcOutput, accountData, poolAll, keyStorage, ticketStore, adders>>

(* ------------------------------ fork gates ----------------------------- *)
\* the height from which the fork-gated features are enabled
ForkHeight == 2
IsHardFork2(h) == h >= ForkHeight
IsSmartTransferEnabled(h) == h >= ForkHeight
IsPrivateSwapCheckingEnabled(h) == h >= ForkHeight
IsMultipleMiningCheckingEnabled(h) == h >= ForkHeight

(* ------------------------ parameter checks ----------------------------- *)
SendAssetParamCheck(p) == p.Value > 0

TimeLockParamCheck(p, ts) ==
  /\ p.Value > 0
  /\ p.StartTime <= p.EndTime
  /\ p.EndTime >= ts

BuyTicketParamCheck(p, ts) == p.Start <= p.End /\ p.End > ts

TicketPrice(h) == 1

\* MakeSwapParam.Check: positive amounts and size, ordered intervals that are not
\* over at the block time
MakeSwapParamCheck(p, ts) ==
  /\ p.MinFromAmount > 0 /\ p.MinToAmount > 0 /\ p.SwapSize > 0
  /\ p.FromStartTime <= p.FromEndTime
  /\ p.ToStartTime <= p.ToEndTime
  /\ p.FromEndTime > ts
  /\ p.ToEndTime > ts

\* RecallSwapParam.Check: nothing beyond the swap being found
RecallSwapParamCheck(p, swap) == TRUE

\* TakeSwapParam.Check: 1 <= Size <= SwapSize and the swap is not over
TakeSwapParamCheck(p, swap, ts) ==
  /\ p.Size >= 1 /\ p.Size <= swap.SwapSize
  /\ swap.FromEndTime > ts
  /\ swap.ToEndTime > ts

\* MakeMultiSwapParam.Check: at least one leg on each side, and every leg as in
\* MakeSwapParam.Check
MakeMultiSwapParamCheck(p, ts) ==
  /\ Len(p.From) > 0 /\ Len(p.To) > 0 /\ p.SwapSize > 0
  /\ \A i \in 1..Len(p.From) :
       /\ p.From[i].Amount > 0
       /\ p.From[i].StartTime <= p.From[i].EndTime
       /\ p.From[i].EndTime > ts
  /\ \A i \in 1..Len(p.To) :
       /\ p.To[i].Amount > 0
       /\ p.To[i].StartTime <= p.To[i].EndTime
       /\ p.To[i].EndTime > ts

\* RecallMultiSwapParam.Check
RecallMultiSwapParamCheck(p, swap) == TRUE

\* TakeMultiSwapParam.Check: 1 <= Size <= SwapSize and no leg is over
TakeMultiSwapParamCheck(p, swap, ts) ==
  /\ p.Size >= 1 /\ p.Size <= swap.SwapSize
  /\ \A i \in 1..Len(swap.From) : swap.From[i].EndTime > ts
  /\ \A i \in 1..Len(swap.To) : swap.To[i].EndTime > ts

\* CheckSwapTargets: a swap without targets is public
CheckSwapTargets(targes, addr) == targes = {} \/ addr \in targes

(* ---------------------- results of a dispatcher call ------------------- *)
\* what a call leaves behind: the returned error ("" for nil) and the ledger
Result(err, bal, tlb) == [err |-> err, bal |-> bal, tlb |-> tlb]

(* ------------------------------ SendAsset ------------------------------ *)
SendAssetAlways(bal, from, p) == TRUE

SendAssetEnough(bal, from, p) == GetBalance(bal, p.AssetID, from) >= p.Value

SendAssetResult(bal, tlb, from, p) ==
  IF ~SendAssetParamCheck(p) THEN Result("invalid param", bal, tlb)
  ELSE IF ~SendAssetEnough(bal, from, p) THEN Result("not enough asset", bal, tlb)
  ELSE Result("", AddBalance(SubBalance(bal, from, p.AssetID, p.Value),
                             p.To, p.AssetID, p.Value), tlb)

SendAssetFunc(from, p) ==
  LET r == SendAssetResult(balances, timeLockBalances, from, p)
  IN /\ balances' = r.bal
     /\ timeLockBalances' = r.tlb
     /\ log' = AddLog("SendAssetFunc", r.err, "", IF r.err = "" THEN p.AssetID ELSE "")
     /\ UNCHANGED <<notations, notationCount, notationLookup, assets, swaps,
                    multiSwaps, tickets, height, timestamp, reports,
                    calcInput, calcOutput, accountData, poolAll, keyStorage, ticketStore, adders>>

(* ------------------------------- TimeLock ------------------------------ *)
\* TimeLockToAsset: the end is coerced to forever before the checks
TimeLockAdjust(p) ==
  IF p.Type = "TimeLockToAsset" THEN [p EXCEPT !.EndTime = TimeLockForever] ELSE p

\* a converted asset whose surplus is dropped instead of refluxed
NoSurplusValue(totalValue, needValue) == EmptyTimeLock

\* surplusValue := new(common.TimeLock).Sub(totalValue, needValue)
SurplusValue(totalValue, needValue) == TLSub(totalValue, needValue)

AssetToTimeLock(bal, tlb, from, p, need, ts) ==
  IF GetBalance(bal, p.AssetID, from) < p.Value THEN Result("not enough asset", bal, tlb)
  ELSE
    LET bal1 == SubBalance(bal, from, p.AssetID, p.Value)
        totalValue == NewTimeLock(TimeLockItem(ts, TimeLockForever, p.Value))
        needValue == NewTimeLock(need)
        surplusValue == SurplusValue(totalValue, needValue)
        tlb1 == IF from = p.To
                THEN AddTimeLockBalance(tlb, p.To, p.AssetID, totalValue, ts)
                ELSE AddTimeLockBalance(
                       IF TLIsEmpty(surplusValue) THEN tlb
                       ELSE AddTimeLockBalance(tlb, from, p.AssetID, surplusValue, ts),
                       p.To, p.AssetID, needValue, ts)
    IN Result("", bal1, tlb1)

TimeLockToTimeLock(bal, tlb, from, p, need, ts) ==
  IF TLCmp(GetTimeLockBalance(tlb, p.AssetID, from), need) < 0
  THEN Result("not enough time lock balance", bal, tlb)
  ELSE Result("", bal,
              AddTimeLockBalance(
                SubTimeLockBalance(tlb, from, p.AssetID, NewTimeLock(need), ts),
                p.To, p.AssetID, NewTimeLock(need), ts))

TimeLockToAsset(bal, tlb, from, p, need, ts) ==
  IF TLCmp(GetTimeLockBalance(tlb, p.AssetID, from), need) < 0
  THEN Result("not enough time lock balance", bal, tlb)
  ELSE Result("", AddBalance(bal, p.To, p.AssetID, p.Value),
              SubTimeLockBalance(tlb, from, p.AssetID, NewTimeLock(need), ts))

\* a top-up that takes the whole value from the plain balance
UseWholeAmount(value, timeLockValue) == value

\* useAssetAmount := new(big.Int).Sub(timeLockParam.Value, timeLockValue)
UseAssetAmount(value, timeLockValue) == value - timeLockValue

SmartTransfer(bal, tlb, from, p, need, ts, h) ==
  IF ~IsSmartTransferEnabled(h) THEN Result("SendTimeLock not enabled", bal, tlb)
  ELSE
    LET start == need.StartTime
        end == need.EndTime
        timeLockBalance == GetTimeLockBalance(tlb, p.AssetID, from)
        timeLockValue == GetSpendableValue(timeLockBalance, start, end)
        assetBalance == GetBalance(bal, p.AssetID, from)
        useAssetAmount == UseAssetAmount(p.Value, timeLockValue)
        surplus == GetSurplusTimeLock(useAssetAmount, start, end, ts)
        short == TLCmp(timeLockBalance, need) < 0
        tlb1 == IF timeLockValue > 0
                THEN SubTimeLockBalance(tlb, from, p.AssetID,
                                        GetTimeLock(timeLockValue, start, end), ts)
                ELSE tlb
        tlb2 == IF short
                THEN (IF TLIsEmpty(surplus) THEN tlb1
                      ELSE AddTimeLockBalance(tlb1, from, p.AssetID, surplus, ts))
                ELSE SubTimeLockBalance(tlb, from, p.AssetID, NewTimeLock(need), ts)
        bal2 == IF short THEN SubBalance(bal, from, p.AssetID, useAssetAmount) ELSE bal
    IN IF short /\ timeLockValue + assetBalance < p.Value
       THEN Result("not enough balance", bal, tlb)
       ELSE IF ~IsWholeAsset(start, end, ts)
       THEN Result("", bal2, AddTimeLockBalance(tlb2, p.To, p.AssetID, NewTimeLock(need), ts))
       ELSE Result("", AddBalance(bal2, p.To, p.AssetID, p.Value), tlb2)

\* the wall-clock guard of TimeLockToAsset: StartTime > time.Now().Unix() is refused
StartTimeAfterNow(p, ts, now) == p.StartTime > now

\* case common.TimeLockFunc; now is time.Now().Unix()
TimeLockResult(bal, tlb, from, p0, ts, now, h) ==
  LET p == TimeLockAdjust(p0)
      start == MaxUint64(p.StartTime, ts)
      need == TimeLockItem(start, p.EndTime, p.Value)
  IN IF p0.Type = "TimeLockToAsset" /\ StartTimeAfterNow(p0, ts, now)
     THEN Result("Start time must be less than now", bal, tlb)
     ELSE IF ~TimeLockParamCheck(p, ts) THEN Result("invalid param", bal, tlb)
     ELSE IF ~ItemIsValid(need) THEN Result("invalid time lock", bal, tlb)
     ELSE IF p.Type = "AssetToTimeLock" THEN AssetToTimeLock(bal, tlb, from, p, need, ts)
     ELSE IF p.Type = "TimeLockToTimeLock" THEN TimeLockToTimeLock(bal, tlb, from, p, need, ts)
     ELSE IF p.Type = "TimeLockToAsset" THEN TimeLockToAsset(bal, tlb, from, p, need, ts)
     ELSE IF p.Type = "SmartTransfer" THEN SmartTransfer(bal, tlb, from, p, need, ts, h)
     ELSE Result("Unsupported", bal, tlb)

\* the LockType key is attached once the type switch is reached (and to the
\* wall-clock refusal of TimeLockToAsset)
TimeLockLogType(p, err) ==
  IF err \in {"invalid param", "invalid time lock"} THEN "" ELSE p.Type

TimeLockFunc(from, p, now) ==
  LET r == TimeLockResult(balances, timeLockBalances, from, p, timestamp, now, height)
  IN /\ balances' = r.bal
     /\ timeLockBalances' = r.tlb
     /\ log' = AddLog("TimeLockFunc", r.err, TimeLockLogType(p, r.err),
                      IF r.err = "" THEN p.AssetID ELSE "")
     /\ UNCHANGED <<notations, notationCount, notationLookup, assets, swaps,
                    multiSwaps, tickets, height, timestamp, reports,
                    calcInput, calcOutput, accountData, poolAll, keyStorage, ticketStore, adders>>

TimeLockTypes == {"AssetToTimeLock", "TimeLockToTimeLock", "TimeLockToAsset", "SmartTransfer"}

(* ------------------------------ call inputs ---------------------------- *)
\* what the accounts hold together of asset id at instant t, plain and time-locked
Holding(bal, tlb, id, t) ==
  LET RECURSIVE Over(_)
      Over(S) == IF S = {} THEN 0
                 ELSE LET a == CHOOSE x \in S : TRUE
                      IN bal[a][id] + tlb[a][id][t] + Over(S \ {a})
  IN Over(Accounts)

\* the calls explored are those that keep every holding within MaxHolding
Bounded ==
  \A id \in AssetIDs, t \in Time :
    Holding(balances', timeLockBalances', id, t) <= MaxHolding

\* the intervals a call names: from now or from the next instant, to the next
\* instant or forever; and one whose start is after its end
Intervals == ({TimeLockNow, 1} \X {1, TimeLockForever}) \cup {<<1, 0>>}

SendAssetParams(ids) ==
  {[AssetID |-> id, To |-> to, Value |-> v] :
     id \in ids, to \in Accounts, v \in 0..MaxValue}

TimeLockParams(ids) ==
  {[Type |-> typ, AssetID |-> id, To |-> to, StartTime |-> i[1], EndTime |-> i[2],
    Value |-> v] :
     typ \in TimeLockTypes, id \in ids, to \in Accounts, i \in Intervals,
     v \in 1..MaxValue}

SendAssetCall(ps) ==
  \E from \in Accounts, p \in ps : SendAssetFunc(from, p) /\ Bounded

\* the wall clock is at or after the parent block's time
TimeLockCall(ps) ==
  \E from \in Accounts, p \in ps, now \in Time :
    /\ now >= timestamp
    /\ p.Type # "TimeLockToAsset" => now = timestamp
    /\ TimeLockFunc(from, p, now)
    /\ Bounded

(* --------------------------- the ledger calls -------------------------- *)
NextLedger ==
  \/ NewBlock
  \/ SendAssetCall(SendAssetParams({SystemAssetID}))
  \/ TimeLockCall(TimeLockParams({SystemAssetID}))

SpecLedger == Init /\ [][NextLedger]_vars

\* C1: over any SendAsset or TimeLock call (every lock type), succeeding or failing,
\* the sum over all accounts of balance plus time-lock value usable at instant t is
\* unchanged, for every asset and every instant t at or after the call's timestamp.
C1_Conservation ==
  [][\A id \in AssetIDs, t \in Time :
       t >= timestamp =>
         Holding(balances', timeLockBalances', id, t)
           = Holding(balances, timeLockBalances, id, t)]_vars

(* ---------------------- StateDB: notation operations ------------------- *)
\* what a notation operation leaves behind
NotationResult(err, nots, count, lookup) ==
  [err |-> err, notations |-> nots, count |-> count, lookup |-> lookup]

\* a counter that stays at the first notation
FirstNotation(count) == 1

\* nextNotation, err := s.GetNotationCount(); nextNotation++
NextNotationOf(count) == count + 1

\* StateDB.GenNotation
GenNotation(nots, count, lookup, addr) ==
  IF GetNotation(nots, addr) # 0
  THEN NotationResult("Account has a notation", nots, count, lookup)
  ELSE LET nextNotation == NextNotationOf(count)
           newNotation == CalcNotationDisplay(nextNotation)
       IN NotationResult("", [nots EXCEPT ![addr] = newNotation], nextNotation,
                         setNotationToAddressLookup(lookup, newNotation, addr))

\* StateDB.BurnNotation
BurnNotation(nots, count, lookup, addr) ==
  IF nots[addr] # 0
  THEN NotationResult("", [nots EXCEPT ![addr] = 0], count,
                      setNotationToAddressLookup(lookup, nots[addr], NoAddress))
  ELSE NotationResult("", nots, count, lookup)

\* the account notations after stateObjectTo.SetNotation(notation) and then
\* stateObjectFrom.SetNotation(0); with from = to both act on the one state object
SetNotations(nots, notation, from, to) ==
  [[nots EXCEPT ![to] = notation] EXCEPT ![from] = 0]

\* StateDB.TransferNotation
TransferNotation(nots, count, lookup, notation, from, to) ==
  IF GetAddressByNotation(lookup, notation) = NoAddress
  THEN NotationResult("notation does not exist or was deleted", nots, count, lookup)
  ELSE IF GetAddressByNotation(lookup, notation) # from
  THEN NotationResult("This notation is not the from address", nots, count, lookup)
  ELSE LET oldNotationTo == nots[to]
           lookup1 == IF oldNotationTo # 0
                      THEN setNotationToAddressLookup(lookup, oldNotationTo, NoAddress)
                      ELSE lookup
       IN NotationResult("", SetNotations(nots, notation, from, to), count,
                         setNotationToAddressLookup(lookup1, notation, to))

(* ------------------------- StateDB: TransferAll ------------------------ *)
\* Ticket.Value: the price of a ticket bought at the ticket's height
TicketValue(ticket) == TicketPrice(ticket.Height)

\* the live tickets of one owner entry, credited to `to` as FSN time locks
RECURSIVE CreditTickets(_, _, _, _)
CreditTickets(tlb, bodies, to, ts) ==
  IF bodies = << >> THEN tlb
  ELSE LET ticket == Head(bodies)
           tlb1 == IF ticket.ExpireTime <= ts THEN tlb
                   ELSE AddTimeLockBalance(tlb, to, SystemAssetID,
                          NewTimeLock(TimeLockItem(ticket.StartTime, ticket.ExpireTime,
                                                   TicketValue(ticket))), ts)
       IN CreditTickets(tlb1, Tail(bodies), to, ts)

\* tickets removed with nothing credited for them
DropTickets(tk, tlb, from, to, ts) ==
  [tickets |-> SelectSeq(tk, LAMBDA e : e.Owner # from), tlb |-> tlb]

\* StateDB.ClearTickets: the first entry owned by `from` is credited and removed
ClearTickets(tk, tlb, from, to, ts) ==
  IF \E i \in 1..Len(tk) : tk[i].Owner = from
  THEN LET i == CHOOSE j \in 1..Len(tk) :
                  tk[j].Owner = from /\ \A k \in 1..(j - 1) : tk[k].Owner # from
       IN [tickets |-> SubSeq(tk, 1, i - 1) \o SubSeq(tk, i + 1, Len(tk)),
           tlb |-> CreditTickets(tlb, tk[i].Tickets, to, ts)]
  ELSE [tickets |-> tk, tlb |-> tlb]

\* the balances loop of TransferAll over the assets in ids
RECURSIVE MoveBalances(_, _, _, _, _)
MoveBalances(bal, orig, ids, from, to) ==
  IF ids = {} THEN bal
  ELSE LET k == CHOOSE x \in ids : TRUE
       IN MoveBalances(AddBalance(SetBalance(bal, from, k, 0), to, k, orig[from][k]),
                       orig, ids \ {k}, from, to)

\* the time-lock loop of TransferAll over the assets in ids
RECURSIVE MoveTimeLocks(_, _, _, _, _, _)
MoveTimeLocks(tlb, orig, ids, from, to, ts) ==
  IF ids = {} THEN tlb
  ELSE LET k == CHOOSE x \in ids : TRUE
       IN MoveTimeLocks(AddTimeLockBalance(SetTimeLockBalance(tlb, from, k, EmptyTimeLock),
                                           to, k, orig[from][k], ts),
                        orig, ids \ {k}, from, to, ts)

\* StateDB.TransferAll; an address that is not a modelled account has no state object
TransferAll(from, to) ==
  IF from \notin Accounts THEN UNCHANGED vars
  ELSE
  LET c == ClearTickets(tickets, timeLockBalances, from, to, timestamp)
      n == BurnNotation(notations, notationCount, notationLookup, from)
  IN /\ tickets' = c.tickets
     /\ notations' = n.notations
     /\ notationLookup' = n.lookup
     /\ balances' = MoveBalances(balances, balances, AssetIDs, from, to)
     /\ timeLockBalances' = MoveTimeLocks(c.tlb, c.tlb, AssetIDs, from, to, timestamp)
     /\ UNCHANGED <<notationCount, assets, swaps, multiSwaps, height, timestamp, log, reports,
                    calcInput, calcOutput, accountData, poolAll, keyStorage, ticketStore, adders>>

(* ----------------------------- GenNotation ----------------------------- *)
\* case common.GenNotationFunc
GenNotationFunc(from) ==
  LET n == GenNotation(notations, notationCount, notationLookup, from)
  IN /\ notations' = n.notations
     /\ notationCount' = n.count
     /\ notationLookup' = n.lookup
     /\ log' = AddLog("GenNotationFunc", n.err, "", "")
     /\ UNCHANGED <<balances, timeLockBalances, assets, swaps, multiSwaps, tickets,
                    height, timestamp, reports,
                    calcInput, calcOutput, accountData, poolAll, keyStorage, ticketStore, adders>>

\* the notations generated so far can name at most MaxNotations accounts
GenNotationCall ==
  \E from \in Accounts :
    /\ notationCount < MaxNotations \/ notations[from] # 0
    /\ GenNotationFunc(from)

(* ------------------------ the notation operations ---------------------- *)
\* the display values of the notations that can exist
Notations == {CalcNotationDisplay(i) : i \in 1..MaxNotations}

\* StateDB.BurnNotation called on its own
BurnNotationCall ==
  \E addr \in Accounts :
    LET n == BurnNotation(notations, notationCount, notationLookup, addr)
    IN /\ notations' = n.notations
       /\ notationLookup' = n.lookup
       /\ UNCHANGED <<balances, timeLockBalances, notationCount, assets, swaps,
                      multiSwaps, tickets, height, timestamp, log, reports,
                      calcInput, calcOutput, accountData, poolAll, keyStorage, ticketStore, adders>>

\* StateDB.TransferNotation called on its own
TransferNotationCall ==
  \E notation \in Notations, from \in Accounts, to \in Accounts :
    LET n == TransferNotation(notations, notationCount, notationLookup, notation, from, to)
    IN /\ notations' = n.notations
       /\ notationLookup' = n.lookup
       /\ UNCHANGED <<balances, timeLockBalances, notationCount, assets, swaps,
                      multiSwaps, tickets, height, timestamp, log, reports,
                      calcInput, calcOutput, accountData, poolAll, keyStorage, ticketStore, adders>>

TransferAllCall == \E from \in Accounts, to \in Accounts : TransferAll(from, to)

NextNotation ==
  \/ NewBlock
  \/ GenNotationCall
  \/ BurnNotationCall
  \/ TransferNotationCall
  \/ TransferAllCall

SpecNotation == Init /\ [][NextNotation]_vars

\* C3: the notation registry and the accounts' Notation fields are in bijection:
\* an account with non-zero notation n is the address n resolves to, and a notation
\* that resolves to an address is that account's Notation.
C3_NotationBijection ==
  /\ \A a \in Accounts :
       notations[a] # 0 => GetAddressByNotation(notationLookup, notations[a]) = a
  /\ \A n \in DOMAIN notationLookup :
       GetAddressByNotation(notationLookup, n) # NoAddress =>
         notations[GetAddressByNotation(notationLookup, n)] = n

(* ------------------------------ BuyTicket ------------------------------ *)
\* crypto.Keccak256Hash(from, GetHash(height - 1)): one ID per sender and parent block
TicketID(from, h) == <<from, h - 1>>

\* a dispatcher that skips the collision guard
NoTicketAlreadyExist(tk, id) == FALSE

\* the collision guard: the ID is already in the ticket set
TicketAlreadyExist(tk, id) == IsTicketExist(tk, id)

TicketResult(err, bal, tlb, tk) == [err |-> err, bal |-> bal, tlb |-> tlb, tickets |-> tk]

\* a purchase that always takes the plain balance
TicketAlwaysUseAsset(tlb, from, need) == TRUE

\* useAsset: the time-lock balance does not cover the required item
TicketUseAsset(tlb, from, need) ==
  TLCmp(GetTimeLockBalance(tlb, SystemAssetID, from), need) < 0

\* case common.BuyTicketFunc
BuyTicketResult(bal, tlb, tk, from, p, ts, h) ==
  LET id == TicketID(from, h)
      value == TicketPrice(h)
      need == TimeLockItem(MaxUint64(p.Start, ts), p.End, value)
      needValue == NewTimeLock(need)
      ticket == [Owner |-> from, ID |-> id, Height |-> h,
                 StartTime |-> p.Start, ExpireTime |-> p.End]
      useAsset == TicketUseAsset(tlb, from, need)
      surplusValue == TLSub(NewTimeLock(TimeLockItem(ts, TimeLockForever, value)), needValue)
  IN IF TicketAlreadyExist(tk, id) THEN TicketResult("Ticket already exist", bal, tlb, tk)
     ELSE IF ~BuyTicketParamCheck(p, IF IsHardFork2(h) THEN ts ELSE 0)
     THEN TicketResult("invalid param", bal, tlb, tk)
     ELSE IF ~ItemIsValid(need) THEN TicketResult("invalid time lock", bal, tlb, tk)
     ELSE IF useAsset /\ GetBalance(bal, SystemAssetID, from) < value
     THEN TicketResult("not enough time lock or asset balance", bal, tlb, tk)
     ELSE IF useAsset
     THEN TicketResult("", SubBalance(bal, from, SystemAssetID, value),
                       IF TLIsEmpty(surplusValue) THEN tlb
                       ELSE AddTimeLockBalance(tlb, from, SystemAssetID, surplusValue, ts),
                       AddTicket(tk, ticket))
     ELSE TicketResult("", bal,
                       SubTimeLockBalance(tlb, from, SystemAssetID, needValue, ts),
                       AddTicket(tk, ticket))

BuyTicketFunc(from, p) ==
  LET r == BuyTicketResult(balances, timeLockBalances, tickets, from, p, timestamp, height)
  IN /\ balances' = r.bal
     /\ timeLockBalances' = r.tlb
     /\ tickets' = r.tickets
     /\ log' = AddLog("BuyTicketFunc", r.err, "", "")
     /\ UNCHANGED <<notations, notationCount, notationLookup, assets, swaps, multiSwaps,
                    height, timestamp, reports,
                    calcInput, calcOutput, accountData, poolAll, keyStorage, ticketStore, adders>>

BuyTicketParams == {[Start |-> i[1], End |-> i[2]] : i \in Intervals}

BuyTicketCall(ps) == \E from \in Accounts, p \in ps : BuyTicketFunc(from, p)

(* ------------------------------ the tickets ---------------------------- *)
NextTicket ==
  \/ NewBlock
  \/ SendAssetCall(SendAssetParams({SystemAssetID}))
  \/ BuyTicketCall(BuyTicketParams)

SpecTicket == Init /\ [][NextTicket]_vars

\* C7: no two tickets of the ticket set share an ID, and a BuyTicket by a sender
\* whose ID for the current parent block is already in the set returns the error
\* "Ticket already exist" and leaves the ticket set, every balance and every
\* time-lock balance as they were.
C7_TicketsUnique ==
  /\ \A i, j \in 1..Len(AllTicketBodies(tickets)) :
       AllTicketBodies(tickets)[i].ID = AllTicketBodies(tickets)[j].ID => i = j
  /\ \A from \in Accounts, p \in BuyTicketParams :
       IsTicketExist(tickets, TicketID(from, height)) =>
         BuyTicketResult(balances, timeLockBalances, tickets, from, p, timestamp, height)
           = TicketResult("Ticket already exist", balances, timeLockBalances, tickets)

\* a second BuyTicket by the same sender over the same parent block was refused
C7_Witness ==
  /\ log.func = "BuyTicketFunc"
  /\ log.err = "Ticket already exist"
  /\ \E a \in Accounts : IsTicketExist(tickets, TicketID(a, height))


(* ------------------------------- MakeSwap ------------------------------ *)
SwapResult(err, bal, tlb, sw, nots, lookup) ==
  [err |-> err, bal |-> bal, tlb |-> tlb, swaps |-> sw, notations |-> nots,
   lookup |-> lookup]

\* start == common.TimeLockNow && end == common.TimeLockForever
UseAsset(start, end) == start = TimeLockNow /\ end = TimeLockForever

\* the common.Swap a MakeSwap stores
NewSwap(swapId, from, p, notation) ==
  [ID |-> swapId, Owner |-> from,
   FromAssetID |-> p.FromAssetID, FromStartTime |-> p.FromStartTime,
   FromEndTime |-> p.FromEndTime, MinFromAmount |-> p.MinFromAmount,
   ToAssetID |-> p.ToAssetID, ToStartTime |-> p.ToStartTime,
   ToEndTime |-> p.ToEndTime, MinToAmount |-> p.MinToAmount,
   SwapSize |-> p.SwapSize, Targes |-> p.Targes, Notation |-> notation]

\* a notation trade: one unit, from now to forever
UsanParam(p) ==
  [p EXCEPT !.MinFromAmount = 1, !.SwapSize = 1,
            !.FromStartTime = TimeLockNow, !.FromEndTime = TimeLockForever]

\* a legacy MakeSwap that would top up from the plain balance as the Ext variant does
LegacyTopsUp(func) == FALSE

\* the legacy variant returns an error instead of topping up the time lock
LegacyRefuses(func) == func = "MakeSwapFunc"

\* case common.MakeSwapFunc, common.MakeSwapFuncExt
MakeSwapResult(bal, tlb, sw, nots, lookup, reg, from, func, swapId, p0, ts, h) ==
  LET notation == GetNotation(nots, from)
      fail(e) == SwapResult(e, bal, tlb, sw, nots, lookup)
      total == p0.MinFromAmount * p0.SwapSize
      start == p0.FromStartTime
      end == p0.FromEndTime
      useAsset == UseAsset(start, end)
      need == TimeLockItem(MaxUint64(start, ts), end, total)
      short == TLCmp(GetTimeLockBalance(tlb, p0.FromAssetID, from), need) < 0
      bal1 == IF short THEN SubBalance(bal, from, p0.FromAssetID, total) ELSE bal
      tlb1 == IF short
              THEN AddTimeLockBalance(tlb, from, p0.FromAssetID,
                                      NewTimeLock(TimeLockItem(ts, TimeLockForever, total)), ts)
              ELSE tlb
  IN IF HasSwap(sw, swapId) THEN fail("Swap already exist")
     ELSE IF ~MakeSwapParamCheck(p0, ts) THEN fail("invalid param")
     ELSE IF ~HasAsset(reg, p0.ToAssetID) THEN fail("ToAssetID's asset not found")
     ELSE IF p0.FromAssetID = OwnerUSANAssetID
     THEN IF notation = 0 THEN fail("the from address does not have a notation")
          ELSE SwapResult("", bal, tlb,
                          UpdateSwap(sw, NewSwap(swapId, from, UsanParam(p0), notation)),
                          nots, lookup)
     ELSE IF ~useAsset /\ ~ItemIsValid(need) THEN fail("invalid time lock")
     ELSE IF useAsset
     THEN IF GetBalance(bal, p0.FromAssetID, from) < total
          THEN fail("not enough from asset")
          ELSE SwapResult("", SubBalance(bal, from, p0.FromAssetID, total), tlb,
                          UpdateSwap(sw, NewSwap(swapId, from, p0, notation)), nots, lookup)
     ELSE IF short /\ LegacyRefuses(func) THEN fail("not enough time lock balance")
     ELSE IF short /\ GetBalance(bal, p0.FromAssetID, from) < total
     THEN fail("not enough time lock or asset balance")
     ELSE SwapResult("", bal1,
                     SubTimeLockBalance(tlb1, from, p0.FromAssetID, NewTimeLock(need), ts),
                     UpdateSwap(sw, NewSwap(swapId, from, p0, notation)), nots, lookup)

(* ------------------------------ RecallSwap ----------------------------- *)
\* a recall that any sender may make
AnyoneRecalls(swap, from) == TRUE

\* swap.Owner != st.msg.From() is refused
OwnerRecalls(swap, from) == swap.Owner = from

\* a recall that refunds one unit of the swap whatever its size
RecallOneUnit(swap) == swap.MinFromAmount

\* what a recall refunds: total := MinFromAmount * SwapSize
RecallTotal(swap) == swap.MinFromAmount * swap.SwapSize

\* case common.RecallSwapFunc
RecallSwapResult(bal, tlb, sw, nots, lookup, from, p, ts) ==
  LET fail(e) == SwapResult(e, bal, tlb, sw, nots, lookup)
      swap == GetSwap(sw, p.SwapID)
      total == RecallTotal(swap)
      need == TimeLockItem(MaxUint64(swap.FromStartTime, ts), swap.FromEndTime, total)
      sw1 == RemoveSwap(sw, p.SwapID)
  IN IF ~HasSwap(sw, p.SwapID) THEN fail("Swap not found")
     ELSE IF ~OwnerRecalls(swap, from) THEN fail("Must be swap onwer can recall")
     ELSE IF ~RecallSwapParamCheck(p, swap) THEN fail("invalid param")
     ELSE IF swap.FromAssetID = OwnerUSANAssetID
     THEN SwapResult("", bal, tlb, sw1, nots, lookup)
     ELSE IF UseAsset(swap.FromStartTime, swap.FromEndTime)
     THEN SwapResult("", AddBalance(bal, from, swap.FromAssetID, total), tlb, sw1,
                     nots, lookup)
     ELSE IF ItemIsValid(need)
     THEN SwapResult("", bal,
                     AddTimeLockBalance(tlb, from, swap.FromAssetID, NewTimeLock(need), ts),
                     sw1, nots, lookup)
     ELSE SwapResult("", bal, tlb, sw1, nots, lookup)

(* ------------------------------- TakeSwap ------------------------------ *)
\* a take that leaves the stored SwapSize as it was
KeepSwapSize(swap, size) == swap

\* swap.SwapSize.Sub(swap.SwapSize, takeSwapParam.Size)
ReduceSwapSize(swap, size) == [swap EXCEPT !.SwapSize = @ - size]

\* a take that never looks at the owner's notation
AnyNotation(nots, swap) == TRUE

\* the notation recorded in a USAN swap is still the owner's
NotationValid(nots, swap) ==
  GetNotation(nots, swap.Owner) # 0 /\ GetNotation(nots, swap.Owner) = swap.Notation

\* a take that moves one unit whatever its Size
TakeOneUnit(amount, size) == amount

\* fromTotal and toTotal: the unit amount times takeSwapParam.Size
TakeTotal(amount, size) == amount * size

\* a take that never removes the swap
TakesNone(swap, size) == FALSE

\* if swap.SwapSize.Cmp(takeSwapParam.Size) == 0
TakesAll(swap, size) == swap.SwapSize = size

\* case common.TakeSwapFunc, common.TakeSwapFuncExt
TakeSwapResult(bal, tlb, sw, nots, lookup, from, func, p, ts, h) ==
  LET fail(e) == SwapResult(e, bal, tlb, sw, nots, lookup)
      swap == GetSwap(sw, p.SwapID)
      usanSwap == swap.FromAssetID = OwnerUSANAssetID
      fromTotal == TakeTotal(swap.MinFromAmount, p.Size)
      fromUseAsset == UseAsset(swap.FromStartTime, swap.FromEndTime)
      toTotal == TakeTotal(swap.MinToAmount, p.Size)
      toUseAsset == UseAsset(swap.ToStartTime, swap.ToEndTime)
      fromNeed == TimeLockItem(MaxUint64(swap.FromStartTime, ts), swap.FromEndTime, fromTotal)
      toNeed == TimeLockItem(MaxUint64(swap.ToStartTime, ts), swap.ToEndTime, toTotal)
      isValid == ItemIsValid(toNeed)
      short == /\ ~toUseAsset
               /\ isValid
               /\ TLCmp(GetTimeLockBalance(tlb, swap.ToAssetID, from), toNeed) < 0
      \* the top-up of the Ext variant
      bal1 == IF short THEN SubBalance(bal, from, swap.ToAssetID, toTotal) ELSE bal
      tlb1 == IF short
              THEN AddTimeLockBalance(tlb, from, swap.ToAssetID,
                                      NewTimeLock(TimeLockItem(ts, TimeLockForever, toTotal)), ts)
              ELSE tlb
      sw1 == IF TakesAll(swap, p.Size) THEN RemoveSwap(sw, swap.ID)
             ELSE UpdateSwap(sw, ReduceSwapSize(swap, p.Size))
      \* the To leg: owner credited, taker debited
      bal2 == IF toUseAsset
              THEN SubBalance(AddBalance(bal1, swap.Owner, swap.ToAssetID, toTotal),
                              from, swap.ToAssetID, toTotal)
              ELSE bal1
      tlb2 == IF ~toUseAsset /\ isValid
              THEN SubTimeLockBalance(
                     AddTimeLockBalance(tlb1, swap.Owner, swap.ToAssetID, NewTimeLock(toNeed), ts),
                     from, swap.ToAssetID, NewTimeLock(toNeed), ts)
              ELSE tlb1
      n == TransferNotation(nots, 0, lookup, swap.Notation, swap.Owner, from)
  IN IF ~HasSwap(sw, p.SwapID) THEN fail("Swap not found")
     ELSE IF ~TakeSwapParamCheck(p, swap, ts) THEN fail("invalid param")
     ELSE IF IsPrivateSwapCheckingEnabled(h) /\ ~CheckSwapTargets(swap.Targes, from)
     THEN fail("swap taker does not match the specified targets")
     ELSE IF usanSwap /\ ~NotationValid(nots, swap)
     THEN fail("notation in swap is no longer valid")
     ELSE IF toUseAsset /\ GetBalance(bal, swap.ToAssetID, from) < toTotal
     THEN fail("not enough from asset")
     ELSE IF short /\ func = "TakeSwapFunc" THEN fail("not enough time lock balance")
     ELSE IF short /\ GetBalance(bal, swap.ToAssetID, from) < toTotal
     THEN fail("not enough time lock or asset balance")
     ELSE IF usanSwap
     THEN IF n.err # ""
          THEN SwapResult("System Error", bal2, tlb2, sw1, nots, lookup)
          ELSE SwapResult("", bal2, tlb2, sw1, n.notations, n.lookup)
     ELSE IF fromUseAsset
     THEN SwapResult("", AddBalance(bal2, from, swap.FromAssetID, fromTotal), tlb2, sw1,
                     nots, lookup)
     ELSE IF ItemIsValid(fromNeed)
     THEN SwapResult("", bal2,
                     AddTimeLockBalance(tlb2, from, swap.FromAssetID, NewTimeLock(fromNeed), ts),
                     sw1, nots, lookup)
     ELSE SwapResult("", bal2, tlb2, sw1, nots, lookup)

(* ------------------------------ multi-swaps ---------------------------- *)
\* A MultiSwap keeps its legs in parallel arrays (FromAssetID[i], FromStartTime[i],
\* FromEndTime[i], MinFromAmount[i], and the same for To); a leg is one index of them.
Leg(assetID, start, end, amount) ==
  [AssetID |-> assetID, StartTime |-> start, EndTime |-> end, Amount |-> amount]

LegNeed(leg, size, ts) ==
  TimeLockItem(MaxUint64(leg.StartTime, ts), leg.EndTime, leg.Amount * size)

LegUseAsset(leg) == UseAsset(leg.StartTime, leg.EndTime)

MultiSwapResult(err, bal, tlb, msw) == [err |-> err, bal |-> bal, tlb |-> tlb, multiSwaps |-> msw]

\* a check that holds each leg alone against the sender's balances
CheckLegsApart(legs, sbal, stl, size, ts) ==
  LET bad(i) ==
        LET leg == legs[i]
            total == leg.Amount * size
            need == LegNeed(leg, size, ts)
        IN IF LegUseAsset(leg) THEN sbal[leg.AssetID] < total
           ELSE /\ ItemIsValid(need)
                /\ TLCmp(stl[leg.AssetID], need) < 0
                /\ sbal[leg.AssetID] < total
      Bad == {i \in 1..Len(legs) : bad(i)}
      first == CHOOSE i \in Bad : \A j \in Bad : i <= j
  IN IF Bad = {} THEN ""
     ELSE IF LegUseAsset(legs[first]) THEN "not enough from asset"
     ELSE "not enough time lock or asset balance"

\* "check balances first": the legs are played on copies of the sender's balances
\* (accountBalances, accountTimeLockBalances); a leg with an invalid requirement is skipped
RECURSIVE CheckLegs(_, _, _, _, _)
CheckLegs(legs, sbal, stl, size, ts) ==
  IF legs = << >> THEN ""
  ELSE LET leg == Head(legs)
           id == leg.AssetID
           total == leg.Amount * size
           need == LegNeed(leg, size, ts)
           short == TLCmp(stl[id], need) < 0
           stl1 == IF short
                   THEN TLAdd(stl[id], NewTimeLock(TimeLockItem(ts, TimeLockForever, total)))
                   ELSE stl[id]
       IN IF LegUseAsset(leg)
          THEN IF sbal[id] < total THEN "not enough from asset"
               ELSE CheckLegs(Tail(legs), [sbal EXCEPT ![id] = @ - total], stl, size, ts)
          ELSE IF ~ItemIsValid(need) THEN CheckLegs(Tail(legs), sbal, stl, size, ts)
          ELSE IF short /\ sbal[id] < total THEN "not enough time lock or asset balance"
          ELSE CheckLegs(Tail(legs),
                         IF short THEN [sbal EXCEPT ![id] = @ - total] ELSE sbal,
                         [stl EXCEPT ![id] = TLSub(stl1, NewTimeLock(need))], size, ts)

\* "then deduct": the legs are taken from the sender, stopping at the first leg
\* that cannot be paid
RECURSIVE DeductLegs(_, _, _, _, _, _)
DeductLegs(legs, bal, tlb, from, size, ts) ==
  IF legs = << >> THEN [err |-> "", bal |-> bal, tlb |-> tlb]
  ELSE LET leg == Head(legs)
           id == leg.AssetID
           total == leg.Amount * size
           need == LegNeed(leg, size, ts)
           short == TLCmp(GetTimeLockBalance(tlb, id, from), need) < 0
           bal1 == IF short THEN SubBalance(bal, from, id, total) ELSE bal
           tlb1 == IF short
                   THEN AddTimeLockBalance(tlb, from, id,
                          NewTimeLock(TimeLockItem(ts, TimeLockForever, total)), ts)
                   ELSE tlb
       IN IF LegUseAsset(leg)
          THEN IF GetBalance(bal, id, from) < total
               THEN [err |-> "not enough from asset", bal |-> bal, tlb |-> tlb]
               ELSE DeductLegs(Tail(legs), SubBalance(bal, from, id, total), tlb, from, size, ts)
          ELSE IF ~ItemIsValid(need) THEN DeductLegs(Tail(legs), bal, tlb, from, size, ts)
          ELSE IF short /\ GetBalance(bal, id, from) < total
          THEN [err |-> "not enough time lock or asset balance", bal |-> bal, tlb |-> tlb]
          ELSE DeductLegs(Tail(legs), bal1,
                          SubTimeLockBalance(tlb1, from, id, NewTimeLock(need), ts),
                          from, size, ts)

\* the legs credited to one account: plain legs to its balance, the others as time locks
RECURSIVE CreditLegs(_, _, _, _, _, _)
CreditLegs(legs, bal, tlb, to, size, ts) ==
  IF legs = << >> THEN [bal |-> bal, tlb |-> tlb]
  ELSE LET leg == Head(legs)
           need == LegNeed(leg, size, ts)
       IN IF LegUseAsset(leg)
          THEN CreditLegs(Tail(legs), AddBalance(bal, to, leg.AssetID, leg.Amount * size),
                          tlb, to, size, ts)
          ELSE IF ItemIsValid(need)
          THEN CreditLegs(Tail(legs), bal,
                          AddTimeLockBalance(tlb, to, leg.AssetID, NewTimeLock(need), ts),
                          to, size, ts)
          ELSE CreditLegs(Tail(legs), bal, tlb, to, size, ts)

\* the common.MultiSwap a MakeMultiSwap stores
NewMultiSwap(swapId, from, p, notation) ==
  [ID |-> swapId, Owner |-> from, From |-> p.From, To |-> p.To,
   SwapSize |-> p.SwapSize, Targes |-> p.Targes, Notation |-> notation]

\* case common.MakeMultiSwapFunc; the existence test reads the single-swap registry
MakeMultiSwapResult(bal, tlb, sw, msw, nots, reg, from, swapId, p, ts) ==
  LET fail(e) == MultiSwapResult(e, bal, tlb, msw)
      check == CheckLegs(p.From, bal[from], tlb[from], p.SwapSize, ts)
      d == DeductLegs(p.From, bal, tlb, from, p.SwapSize, ts)
  IN IF HasSwap(sw, swapId) THEN fail("Swap already exist")
     ELSE IF ~MakeMultiSwapParamCheck(p, ts) THEN fail("invalid param")
     ELSE IF \E i \in 1..Len(p.To) : ~HasAsset(reg, p.To[i].AssetID)
     THEN fail("ToAssetID's asset not found")
     ELSE IF \E i \in 1..Len(p.From) :
               ~LegUseAsset(p.From[i]) /\ ~ItemIsValid(LegNeed(p.From[i], p.SwapSize, ts))
     THEN fail("invalid time lock")
     ELSE IF check # "" THEN fail(check)
     ELSE IF d.err # "" THEN MultiSwapResult(d.err, d.bal, d.tlb, msw)
     ELSE IF HasMultiSwap(msw, swapId)
     THEN MultiSwapResult("System error can't add swap", d.bal, d.tlb, msw)
     ELSE MultiSwapResult("", d.bal, d.tlb,
                          UpdateMultiSwap(msw, NewMultiSwap(swapId, from, p,
                                                            GetNotation(nots, from))))

\* case common.RecallMultiSwapFunc
RecallMultiSwapResult(bal, tlb, msw, from, p, ts) ==
  LET fail(e) == MultiSwapResult(e, bal, tlb, msw)
      swap == GetMultiSwap(msw, p.SwapID)
      c == CreditLegs(swap.From, bal, tlb, from, swap.SwapSize, ts)
  IN IF ~HasMultiSwap(msw, p.SwapID) THEN fail("Swap not found")
     ELSE IF ~OwnerRecalls(swap, from) THEN fail("Must be swap onwer can recall")
     ELSE IF ~RecallMultiSwapParamCheck(p, swap) THEN fail("invalid param")
     ELSE MultiSwapResult("", c.bal, c.tlb, RemoveMultiSwap(msw, p.SwapID))

\* case common.TakeMultiSwapFunc
TakeMultiSwapResult(bal, tlb, msw, from, p, ts, h) ==
  LET fail(e) == MultiSwapResult(e, bal, tlb, msw)
      swap == GetMultiSwap(msw, p.SwapID)
      check == CheckLegs(swap.To, bal[from], tlb[from], p.Size, ts)
      d == DeductLegs(swap.To, bal, tlb, from, p.Size, ts)
      msw1 == IF swap.SwapSize = p.Size THEN RemoveMultiSwap(msw, swap.ID)
              ELSE UpdateMultiSwap(msw, ReduceSwapSize(swap, p.Size))
      owner == CreditLegs(swap.To, d.bal, d.tlb, swap.Owner, p.Size, ts)
      taker == CreditLegs(swap.From, owner.bal, owner.tlb, from, p.Size, ts)
  IN IF ~HasMultiSwap(msw, p.SwapID) THEN fail("Swap not found")
     ELSE IF ~TakeMultiSwapParamCheck(p, swap, ts) THEN fail("invalid param")
     ELSE IF IsPrivateSwapCheckingEnabled(h) /\ ~CheckSwapTargets(swap.Targes, from)
     THEN fail("swap taker does not match the specified targets")
     ELSE IF check # "" THEN fail(check)
     ELSE IF d.err # "" THEN MultiSwapResult(d.err, d.bal, d.tlb, msw)
     ELSE MultiSwapResult("", taker.bal, taker.tlb, msw1)

(* --------------------------- the swap calls ---------------------------- *)
\* the state a swap call leaves, and its log entry under the tag the call carried
ApplySwapResult(r, func, kind, swapId) ==
  /\ balances' = r.bal
  /\ timeLockBalances' = r.tlb
  /\ swaps' = r.swaps
  /\ notations' = r.notations
  /\ notationLookup' = r.lookup
  /\ log' = AddLog(func, r.err, IF r.err = "" THEN kind ELSE "",
                   IF r.err = "" THEN swapId ELSE "")
  /\ UNCHANGED <<notationCount, assets, multiSwaps, tickets, height, timestamp, reports,
                 calcInput, calcOutput, accountData, poolAll, keyStorage, ticketStore, adders>>

MakeSwapFunc(from, func, swapId, p) ==
  ApplySwapResult(MakeSwapResult(balances, timeLockBalances, swaps, notations,
                                 notationLookup, assets, from, func, swapId, p,
                                 timestamp, height),
                  func, "", swapId)

RecallSwapFunc(from, p) ==
  ApplySwapResult(RecallSwapResult(balances, timeLockBalances, swaps, notations,
                                   notationLookup, from, p, timestamp),
                  "RecallSwapFunc", "", p.SwapID)

\* the "Deleted" key of a successful take
SwapDeleted(sw, p) ==
  IF HasSwap(sw, p.SwapID) /\ GetSwap(sw, p.SwapID).SwapSize = p.Size
  THEN "true" ELSE "false"

TakeSwapFunc(from, func, p) ==
  ApplySwapResult(TakeSwapResult(balances, timeLockBalances, swaps, notations,
                                 notationLookup, from, func, p, timestamp, height),
                  func, SwapDeleted(swaps, p), p.SwapID)

\* the intervals a swap leg names: the whole line (plain balance), from the next
\* instant on, and up to the next instant
SwapIntervals ==
  {<<TimeLockNow, TimeLockForever>>, <<1, TimeLockForever>>, <<TimeLockNow, 1>>}

MakeSwapParams(fromIds, toIds, fromIntervals, toIntervals, targets) ==
  {[FromAssetID |-> f, FromStartTime |-> fi[1], FromEndTime |-> fi[2],
    MinFromAmount |-> 1,
    ToAssetID |-> t, ToStartTime |-> ti[1], ToEndTime |-> ti[2],
    MinToAmount |-> mt, SwapSize |-> n, Targes |-> tg] :
     f \in fromIds, t \in toIds, fi \in fromIntervals, ti \in toIntervals,
     mt \in {1, MaxValue}, n \in {1, MaxSwapSize}, tg \in targets}

RecallSwapParams == {[SwapID |-> id] : id \in SwapIDs}

TakeSwapParams == {[SwapID |-> id, Size |-> n] : id \in SwapIDs, n \in 1..MaxSwapSize}

\* the ID of a swap is the hash of the transaction that makes it: never seen before
MakeSwapCall(ps) ==
  \E from \in Accounts, func \in {"MakeSwapFunc", "MakeSwapFuncExt"},
     swapId \in SwapIDs, p \in ps :
    /\ swapId \notin (DOMAIN swaps) \cup (DOMAIN multiSwaps)
    /\ MakeSwapFunc(from, func, swapId, p)

\* the calls on a swap name one that was made
RecallSwapCall ==
  \E from \in Accounts, p \in RecallSwapParams :
    /\ p.SwapID \in DOMAIN swaps
    /\ RecallSwapFunc(from, p)

TakeSwapCall ==
  \E from \in Accounts, func \in {"TakeSwapFunc", "TakeSwapFuncExt"}, p \in TakeSwapParams :
    /\ p.SwapID \in DOMAIN swaps
    /\ TakeSwapFunc(from, func, p)

ApplyMultiSwapResult(r, func, kind, swapId) ==
  /\ balances' = r.bal
  /\ timeLockBalances' = r.tlb
  /\ multiSwaps' = r.multiSwaps
  /\ log' = AddLog(func, r.err, IF r.err = "" THEN kind ELSE "",
                   IF r.err = "" THEN swapId ELSE "")
  /\ UNCHANGED <<notations, notationCount, notationLookup, assets, swaps, tickets,
                 height, timestamp, reports,
                 calcInput, calcOutput, accountData, poolAll, keyStorage, ticketStore, adders>>

MakeMultiSwapFunc(from, swapId, p) ==
  ApplyMultiSwapResult(MakeMultiSwapResult(balances, timeLockBalances, swaps, multiSwaps,
                                           notations, assets, from, swapId, p, timestamp),
                       "MakeMultiSwapFunc", "", swapId)

RecallMultiSwapFunc(from, p) ==
  ApplyMultiSwapResult(RecallMultiSwapResult(balances, timeLockBalances, multiSwaps,
                                             from, p, timestamp),
                       "RecallMultiSwapFunc", "", p.SwapID)

MultiSwapDeleted(msw, p) ==
  IF HasMultiSwap(msw, p.SwapID) /\ GetMultiSwap(msw, p.SwapID).SwapSize = p.Size
  THEN "true" ELSE "false"

TakeMultiSwapFunc(from, p) ==
  ApplyMultiSwapResult(TakeMultiSwapResult(balances, timeLockBalances, multiSwaps,
                                           from, p, timestamp, height),
                       "TakeMultiSwapFunc", MultiSwapDeleted(multiSwaps, p), p.SwapID)

\* the legs of a multi-swap side: one plain leg, or a plain leg and a time-locked
\* leg of the same asset
MultiLegs(id) ==
  {<<Leg(id, TimeLockNow, TimeLockForever, 1)>>,
   <<Leg(id, TimeLockNow, TimeLockForever, 1), Leg(id, 1, TimeLockForever, 1)>>}

MakeMultiSwapParams(fromId, toId) ==
  {[From |-> f, To |-> t, SwapSize |-> n, Targes |-> {}] :
     f \in MultiLegs(fromId), t \in MultiLegs(toId), n \in {1, MaxSwapSize}}

MakeMultiSwapCall(ps) ==
  \E from \in Accounts, swapId \in SwapIDs, p \in ps :
    /\ swapId \notin (DOMAIN swaps) \cup (DOMAIN multiSwaps)
    /\ MakeMultiSwapFunc(from, swapId, p)

RecallMultiSwapCall ==
  \E from \in Accounts, p \in RecallSwapParams :
    /\ p.SwapID \in DOMAIN multiSwaps
    /\ RecallMultiSwapFunc(from, p)

TakeMultiSwapCall ==
  \E from \in Accounts, p \in TakeSwapParams :
    /\ p.SwapID \in DOMAIN multiSwaps
    /\ TakeMultiSwapFunc(from, p)

\* an account locks part of its plain balance for itself
LockParams(ids) ==
  {[Type |-> "AssetToTimeLock", AssetID |-> id, To |-> to, StartTime |-> i[1],
    EndTime |-> i[2], Value |-> 1] :
     id \in ids, to \in Accounts, i \in {<<1, TimeLockForever>>}}

LockCall(ps) ==
  \E from \in Accounts, p \in ps :
    /\ p.To = from
    /\ GenesisBalance(from, p.AssetID) > 0
    /\ TimeLockFunc(from, p, timestamp)

SwapAssetIDs == {SystemAssetID, UserAssetID}

NextSwap ==
  \/ NewBlock
  \/ LockCall(LockParams(SwapAssetIDs))
  \/ MakeSwapCall(MakeSwapParams({SystemAssetID}, SwapAssetIDs, SwapIntervals,
                                 SwapIntervals \ {<<TimeLockNow, 1>>}, {{}}))
  \/ RecallSwapCall
  \/ TakeSwapCall
  \/ MakeMultiSwapCall(MakeMultiSwapParams(SystemAssetID, UserAssetID))
  \/ RecallMultiSwapCall
  \/ TakeMultiSwapCall

SpecSwap == Init /\ [][NextSwap]_vars

(* ------------------------- what the swaps hold ------------------------- *)
\* plain balance plus time-lock value usable at instant t
Value(bal, tlb, a, id, t) == bal[a][id] + tlb[a][id][t]

\* instant t lies in the interval of a swap leg; a leg from now to forever is paid
\* in plain balance, usable at every instant
Within(start, end, t) == UseAsset(start, end) \/ (start <= t /\ t <= end)

\* what the legs of a multi-swap side hold of asset id at instant t, per unit of size
RECURSIVE LegsValue(_, _, _)
LegsValue(legs, id, t) ==
  IF legs = << >> THEN 0
  ELSE (IF Head(legs).AssetID = id /\ Within(Head(legs).StartTime, Head(legs).EndTime, t)
        THEN Head(legs).Amount ELSE 0) + LegsValue(Tail(legs), id, t)

\* what the live swaps and multi-swaps still owe their takers of asset id at instant t:
\* the From side that MakeSwap took from the owner and no take or recall has paid out
RECURSIVE Escrow(_, _, _, _, _)
Escrow(sw, msw, ids, id, t) ==
  IF ids = {} THEN 0
  ELSE LET k == CHOOSE x \in ids : TRUE
           single == IF HasSwap(sw, k) /\ GetSwap(sw, k).FromAssetID = id
                        /\ Within(GetSwap(sw, k).FromStartTime, GetSwap(sw, k).FromEndTime, t)
                     THEN GetSwap(sw, k).MinFromAmount * GetSwap(sw, k).SwapSize ELSE 0
           multi == IF HasMultiSwap(msw, k)
                    THEN LegsValue(GetMultiSwap(msw, k).From, id, t) * GetMultiSwap(msw, k).SwapSize
                    ELSE 0
       IN single + multi + Escrow(sw, msw, ids \ {k}, id, t)

SwapTags ==
  {"MakeSwapFunc", "MakeSwapFuncExt", "RecallSwapFunc", "TakeSwapFunc", "TakeSwapFuncExt",
   "MakeMultiSwapFunc", "RecallMultiSwapFunc", "TakeMultiSwapFunc"}

AllMakeSwapParams ==
  MakeSwapParams({SystemAssetID}, SwapAssetIDs, SwapIntervals, SwapIntervals, {{}})

MakeFuncs == {"MakeSwapFunc", "MakeSwapFuncExt"}

\* the result of MakeSwap by `from` in the current state
MakeNow(from, func, swapId, p) ==
  MakeSwapResult(balances, timeLockBalances, swaps, notations, notationLookup, assets,
                 from, func, swapId, p, timestamp, height)

\* the result of RecallSwap by `from` at block time ts2 in the state the make m left
RecallAfter(m, from, swapId, ts2) ==
  RecallSwapResult(m.bal, m.tlb, m.swaps, m.notations, m.lookup, from,
                   [SwapID |-> swapId], ts2)

\* the make had to top the time lock up from the plain balance
ToppedUp(from, p) ==
  /\ ~UseAsset(p.FromStartTime, p.FromEndTime)
  /\ TLCmp(timeLockBalances[from][p.FromAssetID],
           TimeLockItem(MaxUint64(p.FromStartTime, timestamp), p.FromEndTime,
                        p.MinFromAmount * p.SwapSize)) < 0

\* C5 as stated: after MakeSwap or MakeSwapFuncExt and then RecallSwap (no take in
\* between) the owner's plain balance and time-lock balance of the From asset are
\* exactly what they were before the make.
C5_ExactRestore ==
  \A from \in Accounts, func \in MakeFuncs, swapId \in SwapIDs, p \in AllMakeSwapParams :
    LET m == MakeNow(from, func, swapId, p)
        r == RecallAfter(m, from, swapId, timestamp)
    IN (swapId \notin DOMAIN swaps /\ m.err = "") =>
         /\ r.err = ""
         /\ r.bal[from][p.FromAssetID] = balances[from][p.FromAssetID]
         /\ r.tlb[from][p.FromAssetID] = timeLockBalances[from][p.FromAssetID]

\* C5: after MakeSwap or MakeSwapFuncExt and then RecallSwap at the same or a later
\* block time ts2 (no take in between), the owner holds of the From asset, at every
\* instant t >= ts2, the plain balance plus time-lock value held before the make.
\* Unless the make topped the time lock up, the plain balance and the time-lock value
\* at every t >= ts2 are each what they were; after a top-up (Ext) the plain balance
\* stays lower by the total and the time lock is higher by the total at every t >= ts2.
C5_ValueRestored ==
  \A from \in Accounts, func \in MakeFuncs, swapId \in SwapIDs, p \in AllMakeSwapParams,
     ts2 \in Time :
    LET m == MakeNow(from, func, swapId, p)
        r == RecallAfter(m, from, swapId, ts2)
        id == p.FromAssetID
        total == p.MinFromAmount * p.SwapSize
        kept == IF ToppedUp(from, p) THEN total ELSE 0
    IN (swapId \notin DOMAIN swaps /\ m.err = "" /\ ts2 >= timestamp /\ ts2 < MaxTime) =>
         /\ r.err = ""
         /\ ~HasSwap(r.swaps, swapId)
         /\ r.bal[from][id] = balances[from][id] - kept
         /\ \A t \in Time :
              t >= ts2 => r.tlb[from][id][t] = timeLockBalances[from][id][t] + kept
         /\ \A a \in Accounts \ {from} : r.bal[a] = balances[a] /\ r.tlb[a] = timeLockBalances[a]

\* a swap paid from the owner's time lock was made and then recalled by its owner
C5_Witness ==
  /\ log.func = "RecallSwapFunc"
  /\ log.err = ""
  /\ \E id \in DOMAIN swaps :
       /\ swaps[id].Deleted
       /\ ~UseAsset(swaps[id].Swap.FromStartTime, swaps[id].Swap.FromEndTime)
       /\ swaps[id].Swap.SwapSize = MaxSwapSize

(* ---------------------- recall by a stranger (C6) ---------------------- *)
\* C6: RecallSwap and RecallMultiSwap by a sender who is not the Owner of the swap
\* return the error "Must be swap onwer can recall" and leave the swap retrievable
\* with the same SwapSize and every balance and time-lock balance unchanged.
C6_OnlyOwnerRecalls ==
  \A from \in Accounts, p \in RecallSwapParams :
    /\ (HasSwap(swaps, p.SwapID) /\ GetSwap(swaps, p.SwapID).Owner # from) =>
         LET r == RecallSwapResult(balances, timeLockBalances, swaps, notations,
                                   notationLookup, from, p, timestamp)
         IN /\ r.err = "Must be swap onwer can recall"
            /\ HasSwap(r.swaps, p.SwapID)
            /\ GetSwap(r.swaps, p.SwapID).SwapSize = GetSwap(swaps, p.SwapID).SwapSize
            /\ r.bal = balances /\ r.tlb = timeLockBalances
    /\ (HasMultiSwap(multiSwaps, p.SwapID) /\ GetMultiSwap(multiSwaps, p.SwapID).Owner # from) =>
         LET r == RecallMultiSwapResult(balances, timeLockBalances, multiSwaps, from, p,
                                        timestamp)
         IN /\ r.err = "Must be swap onwer can recall"
            /\ HasMultiSwap(r.multiSwaps, p.SwapID)
            /\ GetMultiSwap(r.multiSwaps, p.SwapID).SwapSize
                 = GetMultiSwap(multiSwaps, p.SwapID).SwapSize
            /\ r.bal = balances /\ r.tlb = timeLockBalances

\* a recall by a sender who is not the owner was refused and the swap is still there
C6_Witness ==
  /\ log.func \in {"RecallSwapFunc", "RecallMultiSwapFunc"}
  /\ log.err = "Must be swap onwer can recall"
  /\ \E id \in SwapIDs : HasSwap(swaps, id) \/ HasMultiSwap(multiSwaps, id)

(* --------------- MakeSwap without enough time lock (C8) ---------------- *)
\* the time lock a top-up leaves with the sender: (ts, forever, total) less the
\* interval the swap requires
MakeSurplus(p, ts) ==
  TLSub(NewTimeLock(TimeLockItem(ts, TimeLockForever, p.MinFromAmount * p.SwapSize)),
        NewTimeLock(TimeLockItem(MaxUint64(p.FromStartTime, ts), p.FromEndTime,
                                 p.MinFromAmount * p.SwapSize)))

\* C8: for a well-formed MakeSwap whose From interval is not [now, forever] and whose
\* sender's time-lock balance does not cover (max(FromStart, ts), FromEnd, total):
\* the legacy MakeSwap returns an error, stores no swap and changes no balance or time
\* lock, whatever the plain balance; MakeSwapFuncExt with plain balance >= total
\* succeeds, lowers the plain balance by exactly the total, stores the swap, and adds
\* to the sender's time lock exactly the surplus (ts, forever, total) minus the
\* required interval.
C8_LegacyRefusesExtTopsUp ==
  \A from \in Accounts, swapId \in SwapIDs, p \in AllMakeSwapParams :
    LET id == p.FromAssetID
        total == p.MinFromAmount * p.SwapSize
        legacy == MakeNow(from, "MakeSwapFunc", swapId, p)
        ext == MakeNow(from, "MakeSwapFuncExt", swapId, p)
    IN (/\ swapId \notin DOMAIN swaps
        /\ MakeSwapParamCheck(p, timestamp)
        /\ HasAsset(assets, p.ToAssetID)
        /\ ToppedUp(from, p)) =>
         /\ legacy.err = "not enough time lock balance"
         /\ legacy.swaps = swaps /\ legacy.bal = balances /\ legacy.tlb = timeLockBalances
         /\ balances[from][id] >= total =>
              /\ ext.err = ""
              /\ ext.bal[from][id] = balances[from][id] - total
              /\ HasSwap(ext.swaps, swapId)
              /\ GetSwap(ext.swaps, swapId) = NewSwap(swapId, from, p, notations[from])
              /\ \A t \in Time :
                   t >= timestamp =>
                     ext.tlb[from][id][t]
                       = timeLockBalances[from][id][t] + MakeSurplus(p, timestamp)[t]
              /\ \A a \in Accounts \ {from} :
                   ext.bal[a] = balances[a] /\ ext.tlb[a] = timeLockBalances[a]

\* MakeSwapFuncExt stored a time-locked swap paid from the plain balance: the owner
\* holds no time lock inside the swap's interval and the surplus before it
C8_Witness ==
  /\ log.func = "MakeSwapFuncExt"
  /\ log.err = ""
  /\ timestamp = 0
  /\ \E id \in SwapIDs :
       /\ HasSwap(swaps, id)
       /\ GetSwap(swaps, id).FromStartTime = 1
       /\ GetSwap(swaps, id).FromEndTime = TimeLockForever
       /\ LET swap == GetSwap(swaps, id)
              total == swap.MinFromAmount * swap.SwapSize
          IN /\ balances[swap.Owner][swap.FromAssetID]
                  = GenesisBalance(swap.Owner, swap.FromAssetID) - total
             /\ timeLockBalances[swap.Owner][swap.FromAssetID][0] = total
             /\ timeLockBalances[swap.Owner][swap.FromAssetID][1] = 0

(* ----------------------------- TakeSwap (C9) --------------------------- *)
\* 1 when the condition holds, else 0
Ind(b) == IF b THEN 1 ELSE 0

\* C9: a successful TakeSwap or TakeSwapFuncExt of Size s on a non-USAN swap of
\* SwapSize n debits the taker MinToAmount x s of the To asset over the To interval,
\* credits the owner exactly that, credits the taker MinFromAmount x s of the From
\* asset over the From interval, changes nothing else, and leaves the swap stored with
\* SwapSize n - s when s < n and not retrievable when s = n. (Amounts are compared as
\* plain balance plus time-lock value at every instant t >= timestamp; a leg from now
\* to forever is paid in plain balance.)
C9_TakeSwapSettles ==
  \A from \in Accounts, func \in {"TakeSwapFunc", "TakeSwapFuncExt"}, p \in TakeSwapParams :
    HasSwap(swaps, p.SwapID) /\ GetSwap(swaps, p.SwapID).FromAssetID # OwnerUSANAssetID =>
      LET swap == GetSwap(swaps, p.SwapID)
          r == TakeSwapResult(balances, timeLockBalances, swaps, notations, notationLookup,
                              from, func, p, timestamp, height)
          toTotal == swap.MinToAmount * p.Size
          fromTotal == swap.MinFromAmount * p.Size
          delta(a, id, t) ==
            toTotal * Ind(id = swap.ToAssetID /\ Within(swap.ToStartTime, swap.ToEndTime, t))
                    * (Ind(a = swap.Owner) - Ind(a = from))
            + fromTotal * Ind(a = from /\ id = swap.FromAssetID
                              /\ Within(swap.FromStartTime, swap.FromEndTime, t))
      IN r.err = "" =>
           /\ \A a \in Accounts, id \in AssetIDs, t \in Time :
                t >= timestamp =>
                  Value(r.bal, r.tlb, a, id, t)
                    = Value(balances, timeLockBalances, a, id, t) + delta(a, id, t)
           /\ func = "TakeSwapFunc" =>
                \A a \in Accounts, id \in AssetIDs :
                  r.bal[a][id] = balances[a][id]
                    + toTotal * Ind(id = swap.ToAssetID
                                    /\ UseAsset(swap.ToStartTime, swap.ToEndTime))
                              * (Ind(a = swap.Owner) - Ind(a = from))
                    + fromTotal * Ind(a = from /\ id = swap.FromAssetID
                                      /\ UseAsset(swap.FromStartTime, swap.FromEndTime))
           /\ p.Size < swap.SwapSize =>
                /\ HasSwap(r.swaps, p.SwapID)
                /\ GetSwap(r.swaps, p.SwapID) = [swap EXCEPT !.SwapSize = swap.SwapSize - p.Size]
           /\ p.Size = swap.SwapSize => ~HasSwap(r.swaps, p.SwapID)
           /\ r.notations = notations /\ r.lookup = notationLookup

\* a swap was taken in part by an account other than its owner: the swap is still
\* stored, smaller, and the taker holds some of the From asset
C9_Witness ==
  /\ log.func \in {"TakeSwapFunc", "TakeSwapFuncExt"}
  /\ log.err = ""
  /\ log.kind = "false"
  /\ \E id \in SwapIDs :
       /\ HasSwap(swaps, id)
       /\ GetSwap(swaps, id).SwapSize < MaxSwapSize
       /\ \E a \in Accounts \ {GetSwap(swaps, id).Owner}, t \in Time :
            Value(balances, timeLockBalances, a, GetSwap(swaps, id).FromAssetID, t) > 0

(* --------------------------- notation swaps ---------------------------- *)
\* the swaps that offer the sender's notation for one unit of an asset
UsanSwapParams ==
  MakeSwapParams({OwnerUSANAssetID}, SwapAssetIDs, {<<TimeLockNow, TimeLockForever>>},
                 {<<TimeLockNow, TimeLockForever>>}, {{}, {"a2"}})

NextUsan ==
  \/ NewBlock
  \/ GenNotationCall
  \/ TransferAllCall
  \/ MakeSwapCall(UsanSwapParams)
  \/ RecallSwapCall
  \/ TakeSwapCall

SpecUsan == Init /\ [][NextUsan]_vars

\* a take of a USAN swap by an account other than its owner moves the notation
UsanTakeByOther ==
  \A from \in Accounts, func \in {"TakeSwapFunc", "TakeSwapFuncExt"}, p \in TakeSwapParams :
    (/\ HasSwap(swaps, p.SwapID)
     /\ GetSwap(swaps, p.SwapID).FromAssetID = OwnerUSANAssetID
     /\ GetSwap(swaps, p.SwapID).Owner # from) =>
      LET swap == GetSwap(swaps, p.SwapID)
          r == TakeSwapResult(balances, timeLockBalances, swaps, notations, notationLookup,
                              from, func, p, timestamp, height)
      IN r.err = "" =>
           /\ r.notations[swap.Owner] = 0
           /\ r.notations[from] = swap.Notation
           /\ GetAddressByNotation(r.lookup, swap.Notation) = from
           /\ notations[from] # 0 =>
                GetAddressByNotation(r.lookup, notations[from]) = NoAddress

\* C10: for a USAN swap made by an owner holding notation N, MakeSwap changes no balance
\* or time-lock balance; a successful TakeSwap leaves the owner's notation 0 and the
\* taker's notation N, with N resolving to the taker and the taker's earlier notation
\* resolving to no address; and TakeSwap fails, moving no notation, when the owner's
\* notation is 0 or is not the one recorded in the swap.
C10_UsanSwap ==
  /\ \A from \in Accounts, func \in MakeFuncs, swapId \in SwapIDs, p \in UsanSwapParams :
       LET m == MakeNow(from, func, swapId, p)
       IN (swapId \notin DOMAIN swaps /\ notations[from] # 0 /\ m.err = "") =>
            m.bal = balances /\ m.tlb = timeLockBalances
  /\ \A from \in Accounts, func \in {"TakeSwapFunc", "TakeSwapFuncExt"}, p \in TakeSwapParams :
       (HasSwap(swaps, p.SwapID) /\ GetSwap(swaps, p.SwapID).FromAssetID = OwnerUSANAssetID) =>
         LET swap == GetSwap(swaps, p.SwapID)
             r == TakeSwapResult(balances, timeLockBalances, swaps, notations,
                                 notationLookup, from, func, p, timestamp, height)
         IN /\ r.err = "" =>
                 /\ r.notations[swap.Owner] = 0
                 /\ r.notations[from] = swap.Notation
                 /\ GetAddressByNotation(r.lookup, swap.Notation) = from
                 /\ (notations[from] # 0 /\ notations[from] # swap.Notation) =>
                      GetAddressByNotation(r.lookup, notations[from]) = NoAddress
            /\ (notations[swap.Owner] = 0 \/ notations[swap.Owner] # swap.Notation) =>
                 /\ r.err # ""
                 /\ r.notations = notations
                 /\ r.lookup = notationLookup

(* ------------------------------- GenAsset ------------------------------ *)
GenAssetParamCheck(p) == p.Total >= 0

AssetResult(err, bal, reg) == [err |-> err, bal |-> bal, assets |-> reg]

\* StateDB.GenAsset: refused when the ID is stored and not deleted
GenAsset(reg, asset) == Put(reg, asset.ID, [Deleted |-> FALSE, Asset |-> asset])

\* case common.GenAssetFunc; assetId is GetUniqueHashFromMessage(st.msg)
GenAssetResult(bal, reg, from, assetId, p) ==
  LET asset == [ID |-> assetId, Owner |-> from, Total |-> p.Total,
                CanChange |-> p.CanChange]
  IN IF ~GenAssetParamCheck(p) THEN AssetResult("invalid param", bal, reg)
     ELSE IF HasAsset(reg, assetId) THEN AssetResult("unable to gen asset", bal, reg)
     ELSE AssetResult("", AddBalance(bal, from, assetId, p.Total), GenAsset(reg, asset))

GenAssetFunc(from, assetId, p) ==
  LET r == GenAssetResult(balances, assets, from, assetId, p)
  IN /\ balances' = r.bal
     /\ assets' = r.assets
     /\ log' = AddLog("GenAssetFunc", r.err, "", IF r.err = "" THEN assetId ELSE "")
     /\ UNCHANGED <<timeLockBalances, notations, notationCount, notationLookup, swaps,
                    multiSwaps, tickets, reports, height, timestamp,
                    calcInput, calcOutput, accountData, poolAll, keyStorage, ticketStore, adders>>

(* --------------------------- AssetValueChange -------------------------- *)
AssetValueChangeParamCheck(p) == p.Value > 0

AnyoneChanges(asset, from) == TRUE

OwnerChanges(asset, from) == asset.Owner = from

\* an increment that leaves the recorded total as it was
TotalKept(total, value) == total

\* asset.Total = asset.Total.Add(asset.Total, assetValueChangeParamEx.Value)
TotalAdd(total, value) == total + value

\* case common.AssetValueChangeFunc
AssetValueChangeResult(bal, reg, from, p) ==
  IF ~AssetValueChangeParamCheck(p) THEN AssetResult("invalid param", bal, reg)
  ELSE IF ~HasAsset(reg, p.AssetID) THEN AssetResult("asset not found", bal, reg)
  ELSE LET asset == GetAsset(reg, p.AssetID)
       IN IF ~asset.CanChange THEN AssetResult("asset can't inc or dec", bal, reg)
          ELSE IF ~OwnerChanges(asset, from)
          THEN AssetResult("can only be changed by owner", bal, reg)
          ELSE IF asset.Owner # p.To /\ ~p.IsInc
          THEN AssetResult("decrement can only happen to asset's own account", bal, reg)
          ELSE IF p.IsInc
          THEN AssetResult("", AddBalance(bal, p.To, p.AssetID, p.Value),
                           UpdateAsset(reg, [asset EXCEPT !.Total = TotalAdd(@, p.Value)]))
          ELSE IF GetBalance(bal, p.AssetID, p.To) < p.Value
          THEN AssetResult("not enough asset", bal, reg)
          ELSE AssetResult("", SubBalance(bal, p.To, p.AssetID, p.Value),
                           UpdateAsset(reg, [asset EXCEPT !.Total = @ - p.Value]))

AssetValueChangeFunc(from, p) ==
  LET r == AssetValueChangeResult(balances, assets, from, p)
  IN /\ balances' = r.bal
     /\ assets' = r.assets
     /\ log' = AddLog("AssetValueChangeFunc", r.err, "",
                      IF r.err = "" THEN p.AssetID ELSE "")
     /\ UNCHANGED <<timeLockBalances, notations, notationCount, notationLookup, swaps,
                    multiSwaps, tickets, reports, height, timestamp,
                    calcInput, calcOutput, accountData, poolAll, keyStorage, ticketStore, adders>>

(* ----------------------------- ReportIllegal --------------------------- *)
\* a report is the pair of headers one miner signed for one height; it names the miner
IsReportExist(rs, report) == report \in rs
AddReport(rs, report) == rs \cup {report}

\* datong.ProcessReport: the tickets of the double miner are deleted
RECURSIVE DeleteTickets(_, _)
DeleteTickets(tk, miner) ==
  IF tk = << >> THEN << >>
  ELSE IF Head(tk).Owner = miner THEN DeleteTickets(Tail(tk), miner)
  ELSE <<Head(tk)>> \o DeleteTickets(Tail(tk), miner)

\* case common.ReportIllegalFunc: a report that is refused returns the error with no
\* log entry and no change of the state
ReportIllegalFunc(from, report) ==
  /\ IsMultipleMiningCheckingEnabled(height)
  /\ ~IsReportExist(reports, report)
  /\ reports' = AddReport(reports, report)
  /\ tickets' = DeleteTickets(tickets, report.Coinbase)
  /\ log' = AddLog("ReportIllegalFunc", "", "", "")
  /\ UNCHANGED <<balances, timeLockBalances, notations, notationCount,
                 notationLookup, assets, swaps, multiSwaps, height, timestamp,
                 calcInput, calcOutput, accountData, poolAll, keyStorage, ticketStore, adders>>

(* ------------------------- every dispatcher call ----------------------- *)
\* One unit of an asset per call. Account a1 holds the native asset: it locks and
\* unlocks for itself, buys the tickets, makes the swaps, and generates the notation
\* and the new asset, and recalls; account a2 holds the user asset and takes; every
\* account sends and reports.
Holder == "a1"
Taker == "a2"

\* the calls explored keep the native asset's holdings within the genesis supply
Small ==
  \A t \in Time : Holding(balances', timeLockBalances', SystemAssetID, t) <= 2

UnitSendAssetParams ==
  {[AssetID |-> SystemAssetID, To |-> to, Value |-> v] : to \in Accounts, v \in {1, 2}}

UnitTimeLockParams ==
  {[Type |-> typ, AssetID |-> SystemAssetID, To |-> to, StartTime |-> 1,
    EndTime |-> TimeLockForever, Value |-> 1] :
     typ \in TimeLockTypes, to \in Accounts}

UnitTicketParams == {[Start |-> TimeLockNow, End |-> TimeLockForever]}

\* the ID of an asset is the hash of the transaction that generates it
GenAssetParams == {[Total |-> 1, CanChange |-> TRUE]}

AssetValueChangeParams ==
  {[AssetID |-> id, To |-> to, Value |-> 1, IsInc |-> inc] :
     id \in {UserAssetID, NewAssetID}, to \in Accounts, inc \in BOOLEAN}

UnitSwapParams ==
  {[FromAssetID |-> SystemAssetID, FromStartTime |-> 1, FromEndTime |-> TimeLockForever,
    MinFromAmount |-> 1,
    ToAssetID |-> UserAssetID, ToStartTime |-> TimeLockNow, ToEndTime |-> TimeLockForever,
    MinToAmount |-> 1, SwapSize |-> 1, Targes |-> {}]}

UnitMultiSwapParams ==
  {[From |-> <<Leg(SystemAssetID, TimeLockNow, TimeLockForever, 1)>>,
    To |-> <<Leg(UserAssetID, TimeLockNow, TimeLockForever, 1)>>,
    SwapSize |-> 1, Targes |-> {}]}

Reports == {[Coinbase |-> a] : a \in Accounts}

\* one new block, whose parent time is the next instant
NextBlockOnce == NewBlock /\ height' <= 2 /\ timestamp' = 1

GenNotationBy(from) == GenNotationFunc(from)

GenAssetBy(from) ==
  \E p \in GenAssetParams :
    /\ NewAssetID \notin DOMAIN assets
    /\ GenAssetFunc(from, NewAssetID, p)

\* the wall clock is at or after the parent block's time
TimeLockBy(from) ==
  \E p \in UnitTimeLockParams, now \in Time :
    /\ p.To = from
    /\ now >= timestamp
    /\ p.Type # "TimeLockToAsset" => now = timestamp
    /\ TimeLockFunc(from, p, now)
    /\ Small

SendAssetBy(from) == \E p \in UnitSendAssetParams : SendAssetFunc(from, p)

BuyTicketBy(from) == \E p \in UnitTicketParams : BuyTicketFunc(from, p)

\* the generated asset is changed on its owner's account
AssetValueChangeBy(from) ==
  \E p \in AssetValueChangeParams :
    /\ p.AssetID = NewAssetID
    /\ p.To = from
    /\ AssetValueChangeFunc(from, p)
    /\ \A id \in DOMAIN assets' : assets'[id].Asset.Total <= 2

MakeSwapBy(from) ==
  \E func \in {"MakeSwapFunc", "MakeSwapFuncExt"}, swapId \in SwapIDs, p \in UnitSwapParams :
    /\ swapId \notin (DOMAIN swaps) \cup (DOMAIN multiSwaps)
    /\ MakeSwapFunc(from, func, swapId, p)

MakeMultiSwapBy(from) ==
  \E swapId \in SwapIDs, p \in UnitMultiSwapParams :
    /\ swapId \notin (DOMAIN swaps) \cup (DOMAIN multiSwaps)
    /\ MakeMultiSwapFunc(from, swapId, p)

RecallSwapBy(from) ==
  \E p \in RecallSwapParams : p.SwapID \in DOMAIN swaps /\ RecallSwapFunc(from, p)

TakeSwapBy(from) ==
  \E func \in {"TakeSwapFunc", "TakeSwapFuncExt"}, p \in TakeSwapParams :
    p.SwapID \in DOMAIN swaps /\ TakeSwapFunc(from, func, p)

RecallMultiSwapBy(from) ==
  \E p \in RecallSwapParams : p.SwapID \in DOMAIN multiSwaps /\ RecallMultiSwapFunc(from, p)

TakeMultiSwapBy(from) ==
  \E p \in TakeSwapParams : p.SwapID \in DOMAIN multiSwaps /\ TakeMultiSwapFunc(from, p)

ReportIllegalOf(miner) ==
  \E from \in Accounts, report \in Reports :
    /\ report.Coinbase = miner
    /\ ReportIllegalFunc(from, report)

NextAll ==
  \/ NextBlockOnce
  \/ GenNotationBy(Holder)
  \/ GenAssetBy(Holder)
  \/ \E from \in Accounts : SendAssetBy(from)
  \/ TimeLockBy(Holder)
  \/ BuyTicketBy(Holder)
  \/ AssetValueChangeBy(Holder)
  \/ MakeSwapBy(Holder)
  \/ RecallSwapBy(Holder)
  \/ TakeSwapBy(Taker)
  \/ MakeMultiSwapBy(Holder)
  \/ RecallMultiSwapBy(Holder)
  \/ TakeMultiSwapBy(Taker)
  \/ ReportIllegalOf(Holder)

SpecAll == Init /\ [][NextAll]_vars

NonNegative(bal) == \A a \in Accounts, id \in AssetIDs : bal[a][id] >= 0

\* C2: starting from plain balances that are all >= 0, after any sequence of dispatcher
\* calls every account's plain balance of every asset is >= 0, and a further call of
\* any function tag by any sender, failed or not, leaves them >= 0: no call subtracts
\* more than the balance holds.
C2_NoNegativeBalance ==
  /\ NonNegative(balances)
  /\ \A from \in Accounts :
       /\ \A p \in UnitSendAssetParams :
            NonNegative(SendAssetResult(balances, timeLockBalances, from, p).bal)
       /\ \A p \in UnitTimeLockParams, now \in Time :
            now >= timestamp =>
              NonNegative(TimeLockResult(balances, timeLockBalances, from, p,
                                         timestamp, now, height).bal)
       /\ \A p \in UnitTicketParams :
            NonNegative(BuyTicketResult(balances, timeLockBalances, tickets, from, p,
                                        timestamp, height).bal)
       /\ \A p \in GenAssetParams :
            NonNegative(GenAssetResult(balances, assets, from, NewAssetID, p).bal)
       /\ \A p \in AssetValueChangeParams :
            NonNegative(AssetValueChangeResult(balances, assets, from, p).bal)
       /\ \A func \in {"MakeSwapFunc", "MakeSwapFuncExt"}, swapId \in SwapIDs,
             p \in UnitSwapParams :
            NonNegative(MakeSwapResult(balances, timeLockBalances, swaps, notations,
                                       notationLookup, assets, from, func, swapId, p,
                                       timestamp, height).bal)
       /\ \A swapId \in SwapIDs, p \in UnitMultiSwapParams :
            NonNegative(MakeMultiSwapResult(balances, timeLockBalances, swaps, multiSwaps,
                                            notations, assets, from, swapId, p,
                                            timestamp).bal)
       /\ \A p \in RecallSwapParams :
            /\ NonNegative(RecallSwapResult(balances, timeLockBalances, swaps, notations,
                                            notationLookup, from, p, timestamp).bal)
            /\ NonNegative(RecallMultiSwapResult(balances, timeLockBalances, multiSwaps,
                                                 from, p, timestamp).bal)
       /\ \A p \in TakeSwapParams :
            /\ \A func \in {"TakeSwapFunc", "TakeSwapFuncExt"} :
                 NonNegative(TakeSwapResult(balances, timeLockBalances, swaps, notations,
                                            notationLookup, from, func, p, timestamp,
                                            height).bal)
            /\ NonNegative(TakeMultiSwapResult(balances, timeLockBalances, multiSwaps,
                                               from, p, timestamp, height).bal)

\* a SendAsset of more than the sender holds has been refused, after a swap was taken
C2_Witness ==
  /\ log.func = "SendAssetFunc"
  /\ log.err = "not enough asset"
  /\ \E id \in DOMAIN swaps : swaps[id].Deleted
  /\ \E a \in Accounts : balances[a][SystemAssetID] = 0

(* ------------------------------ the assets ----------------------------- *)
AllGenAssetParams == {[Total |-> v, CanChange |-> c] : v \in {0, 1}, c \in BOOLEAN}

GenAssetCall ==
  \E from \in Accounts, p \in AllGenAssetParams :
    /\ NewAssetID \notin DOMAIN assets
    /\ GenAssetFunc(from, NewAssetID, p)

AllAssetValueChangeParams ==
  {[AssetID |-> id, To |-> to, Value |-> v, IsInc |-> inc] :
     id \in AssetIDs, to \in Accounts, v \in 0..MaxValue, inc \in BOOLEAN}

\* the changes explored keep the holdings and the recorded totals within MaxHolding
AssetValueChangeCall ==
  \E from \in Accounts, p \in AllAssetValueChangeParams :
    /\ AssetValueChangeFunc(from, p)
    /\ Bounded
    /\ \A id \in DOMAIN assets' : assets'[id].Asset.Total <= MaxHolding

\* GenAsset once more under the ID that is already registered
GenAssetAgain ==
  \E from \in Accounts, p \in AllGenAssetParams :
    NewAssetID \in DOMAIN assets /\ GenAssetFunc(from, NewAssetID, p)

NextAsset ==
  \/ GenAssetCall
  \/ AssetValueChangeCall
  \/ SendAssetCall(SendAssetParams({UserAssetID, NewAssetID}))
  \/ GenAssetAgain

SpecAsset == Init /\ [][NextAsset]_vars

\* the cases in which AssetValueChange refuses
AssetValueChangeRefused(bal, reg, from, p) ==
  \/ ~HasAsset(reg, p.AssetID)
  \/ ~GetAsset(reg, p.AssetID).CanChange
  \/ GetAsset(reg, p.AssetID).Owner # from
  \/ ~p.IsInc /\ GetAsset(reg, p.AssetID).Owner # p.To
  \/ ~p.IsInc /\ bal[p.To][p.AssetID] < p.Value

\* C11: AssetValueChange returns an error and changes neither the asset's Total nor
\* any balance when the asset does not exist, cannot change, the sender is not its
\* owner, a decrement targets another account than the owner's, or a decrement exceeds
\* the target's balance; otherwise (with a valid Value) Total and the target's balance
\* both change by the signed Value and nothing else changes.
C11_AssetValueChange ==
  \A from \in Accounts, p \in AllAssetValueChangeParams :
    LET r == AssetValueChangeResult(balances, assets, from, p)
        signed == IF p.IsInc THEN p.Value ELSE 0 - p.Value
    IN /\ AssetValueChangeRefused(balances, assets, from, p) => r.err # ""
       /\ r.err # "" => r.bal = balances /\ r.assets = assets
       /\ (~AssetValueChangeRefused(balances, assets, from, p) /\ p.Value > 0) =>
            /\ r.err = ""
            /\ r.assets[p.AssetID].Asset.Total = assets[p.AssetID].Asset.Total + signed
            /\ r.assets[p.AssetID].Asset.Owner = assets[p.AssetID].Asset.Owner
            /\ \A id \in DOMAIN assets : id # p.AssetID => r.assets[id] = assets[id]
            /\ r.bal[p.To][p.AssetID] = balances[p.To][p.AssetID] + signed
            /\ \A a \in Accounts, id \in AssetIDs :
                 <<a, id>> # <<p.To, p.AssetID>> => r.bal[a][id] = balances[a][id]

\* a change by another account than the owner has been refused, after the owner
\* changed the total and passed part of the asset on
C11_Witness ==
  /\ log.func = "AssetValueChangeFunc"
  /\ log.err = "can only be changed by owner"
  /\ assets[UserAssetID].Asset.Total # 2
  /\ balances["a1"][UserAssetID] > 0

(* --------------------------- the time-lock calls ----------------------- *)
\* TimeLock calls of every type on the system asset, over the intervals from now
\* or from the next instant to the next instant or forever
AllLockParams ==
  {[Type |-> typ, AssetID |-> SystemAssetID, To |-> to, StartTime |-> i[1],
    EndTime |-> i[2], Value |-> v] :
     typ \in TimeLockTypes, to \in Accounts,
     i \in {<<0, 1>>, <<1, 1>>, <<0, TimeLockForever>>, <<1, TimeLockForever>>},
     v \in {1, 2}}

NextLock ==
  \/ NewBlock
  \/ \E from \in Accounts, p \in AllLockParams :
       TimeLockFunc(from, p, timestamp) /\ Small

SpecLock == Init /\ [][NextLock]_vars

(* ------------------------- AssetToTimeLock (C12) ----------------------- *)
\* the AssetToTimeLock calls to somebody else whose parameters pass the checks
AssetToTimeLockParams(from) ==
  {p \in TimeLockParams({SystemAssetID}) :
     /\ p.Type = "AssetToTimeLock"
     /\ p.To # from
     /\ TimeLockParamCheck(p, timestamp)
     /\ ItemIsValid(TimeLockItem(MaxUint64(p.StartTime, timestamp), p.EndTime, p.Value))}

\* value of the item (start, end, v) at instant t
ItemAt(start, end, v, t) == IF start <= t /\ t <= end THEN v ELSE 0

\* C12: an AssetToTimeLock call of value v at timestamp ts over [start, end] to a
\* recipient other than the sender takes v from the sender's plain balance,
\* credits the recipient the time lock (max(start, ts), end, v) and credits the
\* sender exactly the rest of (ts, forever, v); with a balance below v it
\* returns an error and changes nothing.
C12_AssetToTimeLock ==
  \A from \in Accounts : \A p \in AssetToTimeLockParams(from) :
    LET r == TimeLockResult(balances, timeLockBalances, from, p, timestamp, timestamp,
                            height)
        start == MaxUint64(p.StartTime, timestamp)
        id == p.AssetID
    IN IF GetBalance(balances, id, from) < p.Value
       THEN r.err # "" /\ r.bal = balances /\ r.tlb = timeLockBalances
       ELSE /\ r.err = ""
            /\ r.bal = [balances EXCEPT ![from][id] = @ - p.Value]
            /\ \A a \in Accounts, i \in AssetIDs :
                 (i # id) => r.tlb[a][i] = timeLockBalances[a][i]
            /\ \A t \in timestamp..MaxTime :
                 /\ r.tlb[p.To][id][t] =
                      timeLockBalances[p.To][id][t] + ItemAt(start, p.EndTime, p.Value, t)
                 /\ r.tlb[from][id][t] =
                      timeLockBalances[from][id][t] + p.Value
                        - ItemAt(start, p.EndTime, p.Value, t)

\* an AssetToTimeLock call has split an asset: the recipient holds the required
\* interval and the sender the rest of the time line
C12_Witness ==
  /\ log.func = "TimeLockFunc" /\ log.kind = "AssetToTimeLock" /\ log.err = ""
  /\ \E a, b \in Accounts, t1, t2 \in Time :
       /\ a # b
       /\ timeLockBalances[a][SystemAssetID][t1] > 0
       /\ timeLockBalances[a][SystemAssetID][t2] = 0
       /\ timeLockBalances[b][SystemAssetID][t1] = 0
       /\ timeLockBalances[b][SystemAssetID][t2] > 0


(* ------------------------ paying for a ticket (C13) -------------------- *)
\* the tickets of accounts that lock assets for themselves and others
NextBuy ==
  \/ NewBlock
  \/ \E from \in Accounts, p \in AllLockParams :
       p.Type = "AssetToTimeLock" /\ TimeLockFunc(from, p, timestamp) /\ Small
  \/ BuyTicketCall(BuyTicketParams)

SpecBuy == Init /\ [][NextBuy]_vars

\* the purchases that pass the checks made before the payment
BuyableParams(from) ==
  {p \in BuyTicketParams :
     /\ ~TicketAlreadyExist(tickets, TicketID(from, height))
     /\ BuyTicketParamCheck(p, IF IsHardFork2(height) THEN timestamp ELSE 0)
     /\ ItemIsValid(TimeLockItem(MaxUint64(p.Start, timestamp), p.End,
                                 TicketPrice(height)))}

\* C13: BuyTicket pays from the time lock whenever the sender's system-asset time
\* lock covers (max(start, ts), end, TicketPrice) and then leaves the plain
\* balance alone; only otherwise it takes exactly TicketPrice from the plain
\* balance and credits the sender the rest of (ts, forever, price); when neither
\* suffices it returns an error, adds no ticket and changes no balance.
C13_BuyTicketPayment ==
  \A from \in Accounts : \A p \in BuyableParams(from) :
    LET r == BuyTicketResult(balances, timeLockBalances, tickets, from, p, timestamp,
                             height)
        price == TicketPrice(height)
        start == MaxUint64(p.Start, timestamp)
        mine == timeLockBalances[from][SystemAssetID]
        covered == \A t \in start..p.End : mine[t] >= price
        others == \A a \in Accounts, i \in AssetIDs :
                    (a # from \/ i # SystemAssetID) =>
                       r.tlb[a][i] = timeLockBalances[a][i]
        bought == /\ IsTicketExist(r.tickets, TicketID(from, height))
                  /\ Len(AllTicketBodies(r.tickets)) = Len(AllTicketBodies(tickets)) + 1
    IN IF covered
       THEN /\ r.err = "" /\ r.bal = balances /\ others /\ bought
            /\ \A t \in timestamp..MaxTime :
                 r.tlb[from][SystemAssetID][t] = mine[t] - ItemAt(start, p.End, price, t)
       ELSE IF GetBalance(balances, SystemAssetID, from) >= price
       THEN /\ r.err = "" /\ others /\ bought
            /\ r.bal = [balances EXCEPT ![from][SystemAssetID] = @ - price]
            /\ \A t \in timestamp..MaxTime :
                 r.tlb[from][SystemAssetID][t] =
                   mine[t] + price - ItemAt(start, p.End, price, t)
       ELSE /\ r.err # "" /\ r.bal = balances /\ r.tlb = timeLockBalances
            /\ r.tickets = tickets


\* an account that never held a plain balance owns a ticket of this block: it was
\* paid from the time lock somebody locked for it, which has lost the interval
C13_Witness ==
  /\ log.func = "BuyTicketFunc" /\ log.err = ""
  /\ IsTicketExist(tickets, TicketID("a2", height))
  /\ balances["a2"][SystemAssetID] = 0
  /\ \E t \in Time : timeLockBalances["a2"][SystemAssetID][t] = 0
  /\ \E t \in Time : timeLockBalances["a2"][SystemAssetID][t] > 0


(* --------------------------- SmartTransfer (C14) ----------------------- *)
\* the SmartTransfer calls whose parameters pass the checks
SmartTransferParams ==
  {p \in TimeLockParams({SystemAssetID}) :
     /\ p.Type = "SmartTransfer"
     /\ TimeLockParamCheck(p, timestamp)
     /\ ItemIsValid(TimeLockItem(MaxUint64(p.StartTime, timestamp), p.EndTime, p.Value))}

\* C14: a SmartTransfer of Value over [max(start, ts), end] debits only the time
\* lock when the sender's time lock covers the requirement; otherwise it debits
\* the time-lock value spendable over the interval first and takes only the
\* shortfall Value - spendable from the plain balance, crediting the surplus time
\* lock of that shortfall back to the sender, and fails without any change when
\* spendable + plain balance < Value; the recipient is credited plain balance
\* exactly when the interval is [ts, forever] and a time lock otherwise; before the
\* fork the call fails without any change.
C14_SmartTransfer ==
  \A from \in Accounts : \A p \in SmartTransferParams :
    LET r == TimeLockResult(balances, timeLockBalances, from, p, timestamp, timestamp,
                            height)
        id == p.AssetID
        start == MaxUint64(p.StartTime, timestamp)
        end == p.EndTime
        mine == timeLockBalances[from][id]
        plain == balances[from][id]
        spendable == CHOOSE v \in 0..(MaxHolding + MaxValue) :
                       /\ \A t \in start..end : mine[t] >= v
                       /\ \E t \in start..end : mine[t] = v
        covered == spendable >= p.Value
        shortfall == IF covered THEN 0 ELSE p.Value - spendable
        whole == start = timestamp /\ end = TimeLockForever
        \* what leaves the sender's time lock at t, and what comes back
        debit(t) == ItemAt(start, end, IF covered THEN p.Value ELSE spendable, t)
        refund(t) == shortfall - ItemAt(start, end, shortfall, t)
        credit(t) == IF whole THEN 0 ELSE ItemAt(start, end, p.Value, t)
    IN IF ~(height >= ForkHeight) \/ (~covered /\ spendable + plain < p.Value)
       THEN r.err # "" /\ r.bal = balances /\ r.tlb = timeLockBalances
       ELSE /\ r.err = ""
            /\ r.bal = [a \in Accounts |-> [i \in AssetIDs |->
                          balances[a][i]
                            - (IF a = from /\ i = id THEN shortfall ELSE 0)
                            + (IF a = p.To /\ i = id /\ whole THEN p.Value ELSE 0)]]
            /\ \A a \in Accounts, i \in AssetIDs, t \in timestamp..MaxTime :
                 r.tlb[a][i][t] =
                   timeLockBalances[a][i][t]
                     - (IF a = from /\ i = id THEN debit(t) - refund(t) ELSE 0)
                     + (IF a = p.To /\ i = id THEN credit(t) ELSE 0)

\* a SmartTransfer over the next instant alone has left the sender the time lock
\* after it and the recipient a time lock of the whole value at it
C14_Witness ==
  /\ log.func = "TimeLockFunc" /\ log.kind = "SmartTransfer" /\ log.err = ""
  /\ height >= ForkHeight /\ timestamp = 1
  /\ balances["a1"][SystemAssetID] = 0
  /\ timeLockBalances["a1"][SystemAssetID][1] = 0
  /\ timeLockBalances["a1"][SystemAssetID][MaxTime] = 2
  /\ timeLockBalances["a2"][SystemAssetID][1] = 2
  /\ timeLockBalances["a2"][SystemAssetID][MaxTime] = 0


(* ------------------------- the wall clock (C15) ------------------------ *)
\* what a TimeLock call does: whether it succeeds, and the ledger it leaves
Outcome(r) == [ok |-> r.err = "", bal |-> r.bal, tlb |-> r.tlb]

\* C15: the outcome of a dispatcher call depends only on the parameters, the
\* sender, the prior state, the block height and the parent block's time: two
\* executions of the same TimeLock call (any type, TimeLockToAsset included) at
\* different wall-clock times succeed or fail alike and leave the same ledger.
C15_WallClockFree ==
  \A from \in Accounts, p \in TimeLockParams({SystemAssetID}), now1, now2 \in Time :
    (now1 >= timestamp /\ now2 >= timestamp) =>
       Outcome(TimeLockResult(balances, timeLockBalances, from, p, timestamp, now1,
                              height))
         = Outcome(TimeLockResult(balances, timeLockBalances, from, p, timestamp, now2,
                                  height))


(* ------------------------------ the log (C16) -------------------------- *)
\* Here log is what the last dispatcher call appended to FSNCallAddress: the entry
\* of its one addLog, or NoLog when it returned without reaching an addLog.

\* the tags the switch has no statements for: EmptyFunc, whose case is empty, and
\* a tag no case names
UnsupportedTags == {"EmptyFunc", "UnknownFunc"}

\* both leave the switch and reach the final return fmt.Errorf("Unsupported")
UnsupportedFunc(from, tag) ==
  /\ tag \in UnsupportedTags
  /\ log' = NoLog
  /\ UNCHANGED <<balances, timeLockBalances, notations, notationCount, notationLookup,
                 assets, swaps, multiSwaps, tickets, height, timestamp, reports,
                 calcInput, calcOutput, accountData, poolAll, keyStorage, ticketStore, adders>>

\* case common.ReportIllegalFunc, refused: before the fork, or a report that is
\* already recorded; the error is returned with no addLog
ReportIllegalRefused(from, report) ==
  /\ ~IsMultipleMiningCheckingEnabled(height) \/ IsReportExist(reports, report)
  /\ log' = NoLog
  /\ UNCHANGED <<balances, timeLockBalances, notations, notationCount, notationLookup,
                 assets, swaps, multiSwaps, tickets, height, timestamp, reports,
                 calcInput, calcOutput, accountData, poolAll, keyStorage, ticketStore, adders>>

NextLog ==
  \/ NewBlock
  \/ GenNotationCall
  \/ SendAssetCall(UnitSendAssetParams)
  \/ \E from \in Accounts, report \in Reports : ReportIllegalFunc(from, report)
  \/ \E from \in Accounts, report \in Reports : ReportIllegalRefused(from, report)
  \/ \E from \in Accounts, tag \in UnsupportedTags : UnsupportedFunc(from, tag)

SpecLog == Init /\ [][NextLog]_vars

\* C16: every dispatcher call, succeeding or failing, of every tag (EmptyFunc,
\* ReportIllegal and unknown tags included) appends exactly one log entry to
\* FSNCallAddress. A step that keeps the height is a dispatcher call.
C16_OneLogPerCall == [][height' = height => log' # NoLog]_vars


(* ----------------------- issuing notations (C17) ----------------------- *)
\* GenNotation by any account, while fewer than six notations were issued
IssueCall ==
  \E from \in Accounts :
    /\ notationCount < 6 \/ notations[from] # 0
    /\ GenNotationFunc(from)

NextIssue ==
  \/ NewBlock
  \/ IssueCall
  \/ BurnNotationCall

SpecIssue == Init /\ [][NextIssue]_vars

\* C17: GenNotation for an account whose notation is not zero returns an error and
\* leaves NotationCount, the lookup and the account's notation unchanged; otherwise
\* it increments NotationCount by one and sets the account's notation to
\* CalcNotationDisplay of the new count. Over any sequence of GenNotation and
\* BurnNotation no two accounts hold the same non-zero notation and a burnt
\* notation is never issued again (the lookup keeps every notation ever issued).
C17_GenNotation ==
  /\ \A a, b \in Accounts :
       (a # b /\ notations[a] # 0) => notations[a] # notations[b]
  /\ DOMAIN notationLookup = {CalcNotationDisplay(k) : k \in 1..notationCount}
  /\ \A a \in Accounts :
       notations[a] # 0 => GetAddressByNotation(notationLookup, notations[a]) = a
  /\ \A addr \in Accounts :
       LET n == GenNotation(notations, notationCount, notationLookup, addr)
       IN IF notations[addr] # 0
          THEN /\ n.err # ""
               /\ n.notations = notations
               /\ n.count = notationCount
               /\ n.lookup = notationLookup
          ELSE /\ n.err = ""
               /\ n.count = notationCount + 1
               /\ n.notations = [notations EXCEPT ![addr] = CalcNotationDisplay(n.count)]
               /\ n.notations[addr] \notin DOMAIN notationLookup
               /\ \A b \in Accounts : n.notations[addr] # notations[b]

\* an account that burnt the first notation holds the second one
C17_Witness ==
  /\ log.func = "GenNotationFunc" /\ log.err = ""
  /\ notationCount = 2
  /\ \E a \in Accounts : notations[a] = CalcNotationDisplay(2)
  /\ GetAddressByNotation(notationLookup, CalcNotationDisplay(1)) = NoAddress
  /\ CalcNotationDisplay(1) \in DOMAIN notationLookup


(* -------------------- CalcNotationDisplay on uint64 (C18) -------------- *)
\* A uint64 is held as four 16-bit limbs, lowest first, so that the 64-bit product
\* and its wrap-around are computed exactly.
Limb == 2^16

U64(l0, l1, l2, l3) == <<l0, l1, l2, l3>>

\* x * 100 as the five limbs of the exact product
Times100(x) ==
  LET c1 == x[1] * 100
      c2 == x[2] * 100 + (c1 \div Limb)
      c3 == x[3] * 100 + (c2 \div Limb)
      c4 == x[4] * 100 + (c3 \div Limb)
  IN <<c1 % Limb, c2 % Limb, c3 % Limb, c4 % Limb, c4 \div Limb>>

\* y + d for a small d, over the limbs of y, with one limb more for the carry
Plus(y, d) ==
  LET RECURSIVE Go(_, _)
      Go(i, carry) ==
        IF i > Len(y) THEN <<carry>>
        ELSE <<(y[i] + carry) % Limb>> \o Go(i + 1, (y[i] + carry) \div Limb)
  IN Go(1, d)

\* x mod d and x div d for a small d, by long division from the highest limb
RECURSIVE ModU64(_, _)
ModU64(x, d) ==
  IF x = << >> THEN 0
  ELSE (ModU64(Tail(x), d) * Limb + Head(x)) % d

RECURSIVE DivU64(_, _)
DivU64(x, d) ==
  IF x = << >> THEN << >>
  ELSE <<(ModU64(Tail(x), d) * Limb + Head(x)) \div d>> \o DivU64(Tail(x), d)

\* check := (notation ^ 8192 ^ 13) % 100; both masks lie in the lowest limb
Check(x) == ModU64([x EXCEPT ![1] = Xor(Xor(x[1], 8192), 13)], 100)

\* the integer notation*100 + check, not cut to 64 bits (six limbs)
ExactDisplay(x) == Plus(Times100(x), Check(x))

\* the low 64 bits of a limb sequence (uint64 arithmetic wraps)
Low64(y) == SubSeq(y, 1, 4)

\* a display without the checksum digits
PlainDisplayU64(x) == Low64(Times100(x))

\* StateDB.CalcNotationDisplay on uint64
CalcNotationDisplayU64(x) ==
  IF x = U64(0, 0, 0, 0) THEN x
  ELSE Low64(Plus(Low64(Times100(x)), Check(x)))

\* the numbers looked at: every mix of the lowest and highest limbs, of the limbs of
\* the largest number whose display fits 64 bits (0x028F5C28F5C28F5B) and of its
\* successor, of the masks, and a pair of numbers with one display
Numbers ==
  {U64(l0, l1, l2, l3) :
     l0 \in {0, 1, 13, 8192, 8205, 1204, 36699, 36700, 65535},
     l1 \in {0, 62914, 65535}, l2 \in {0, 23592, 65535}, l3 \in {0, 655, 16384, 65535}}
    \cup {U64(24796, 49807, 10485, 3932)}

InitDisplay ==
  /\ Genesis
  /\ calcInput \in Numbers
  /\ calcOutput = << >>

\* one call of CalcNotationDisplay
CalcCall ==
  /\ calcOutput = << >>
  /\ calcOutput' = CalcNotationDisplayU64(calcInput)
  /\ UNCHANGED <<balances, timeLockBalances, notations, notationCount, notationLookup,
                 assets, swaps, multiSwaps, tickets, reports, height, timestamp, log,
                 calcInput, accountData, poolAll, keyStorage, ticketStore, adders>>

NextDisplay == CalcCall

SpecDisplay == InitDisplay /\ [][NextDisplay]_vars

\* the display is the integer notation*100 + check: the exact value fits 64 bits
Fits(x) == ExactDisplay(x)[5] = 0 /\ ExactDisplay(x)[6] = 0

\* what the claim says of one number n and its display
DisplayLaw(n, display) ==
  /\ display \o <<0, 0>> = ExactDisplay(n)
  /\ ModU64(display, 100) = Check(n)
  /\ DivU64(display, 100) = n
  /\ \A m \in Numbers : m # n => CalcNotationDisplayU64(m) # display

\* C18 as stated: for every unsigned 64-bit n, CalcNotationDisplay(n) equals
\* n*100 + ((n XOR 8192 XOR 13) mod 100); display mod 100 is the checksum, display
\* div 100 is n, and distinct n give distinct displays.
C18_DisplayEveryN ==
  calcOutput # << >> => DisplayLaw(calcInput, calcOutput)

\* C18, amended: the same for every n >= 1 whose n*100 + checksum fits 64 bits
\* (n <= 0x028F5C28F5C28F5B), distinct such n giving distinct displays;
\* CalcNotationDisplay(0) = 0.
C18_DisplayFittingN ==
  calcOutput # << >> =>
    IF calcInput = U64(0, 0, 0, 0) THEN calcOutput = U64(0, 0, 0, 0)
    ELSE Fits(calcInput) =>
           /\ calcOutput \o <<0, 0>> = ExactDisplay(calcInput)
           /\ ModU64(calcOutput, 100) = Check(calcInput)
           /\ DivU64(calcOutput, 100) = calcInput
           /\ \A m \in Numbers :
                (m # calcInput /\ Fits(m)) => CalcNotationDisplayU64(m) # calcOutput

\* the display of the largest number that fits has been computed
C18_Witness ==
  /\ calcInput = U64(36699, 62914, 23592, 655)
  /\ calcOutput # << >>
  /\ Fits(calcInput)
  /\ DivU64(calcOutput, 100) = calcInput


(* ------------------------------ GenAsset (C19) ------------------------- *)
\* C19: GenAsset under an ID that is registered and not tombstoned returns an error
\* and leaves the asset records and the balances unchanged; otherwise it registers
\* the asset with Owner = sender and raises only the sender's plain balance of the
\* new asset, by exactly Total.
C19_GenAsset ==
  \A from \in Accounts, assetId \in AssetIDs, p \in AllGenAssetParams :
    LET r == GenAssetResult(balances, assets, from, assetId, p)
    IN IF assetId \in DOMAIN assets /\ ~assets[assetId].Deleted
       THEN r.err # "" /\ r.bal = balances /\ r.assets = assets
       ELSE /\ r.err = ""
            /\ DOMAIN r.assets = DOMAIN assets \cup {assetId}
            /\ \A id \in DOMAIN assets : id # assetId => r.assets[id] = assets[id]
            /\ r.assets[assetId] =
                 [Deleted |-> FALSE,
                  Asset |-> [ID |-> assetId, Owner |-> from, Total |-> p.Total,
                             CanChange |-> p.CanChange]]
            /\ r.bal = [balances EXCEPT ![from][assetId] = @ + p.Total]

\* a second GenAsset under the generated ID was refused: the asset keeps its owner
\* and the owner their balance
C19_Witness ==
  /\ log.func = "GenAssetFunc" /\ log.err = "unable to gen asset"
  /\ NewAssetID \in DOMAIN assets
  /\ \E a \in Accounts :
       /\ assets[NewAssetID].Asset.Owner = a
       /\ assets[NewAssetID].Asset.Total = 1
       /\ balances[a][NewAssetID] = 1


(* ------------------------ TxPool pre-validation (C20) ------------------ *)
\* A call transaction: the function tag, the decoded parameter, the asset ID its
\* hash stands for (GenAsset), and gas * price.
Tx(func, data, gasValue) == [Func |-> func, Data |-> data, GasValue |-> gasValue]

\* common.GetFsnCallFee(to, func)
GetFsnCallFee(func) == 0

PoolResult(err, fsnValue) == [err |-> err, fsnValue |-> fsnValue]

\* case common.TimeLockFunc of validateFsnCallTx; timestamp is the wall clock
PoolTimeLock(bal, tlb, from, p0, nextBlockNumber, now) ==
  LET p == TimeLockAdjust(p0)
      start == MaxUint64(p.StartTime, now)
      end == p.EndTime
      need == TimeLockItem(start, end, p.Value)
      timeLockBalance == GetTimeLockBalance(tlb, p.AssetID, from)
      timeLockValue == GetSpendableValue(timeLockBalance, start, end)
  IN IF p0.Type = "TimeLockToAsset" /\ p0.StartTime > now
     THEN PoolResult("TimeLockToAsset: Start time must be less than now", 0)
     ELSE IF p.To = NoAddress
     THEN PoolResult("receiver address must be set and not zero address", 0)
     ELSE IF ~TimeLockParamCheck(p, now) THEN PoolResult("invalid param", 0)
     ELSE IF ~ItemIsValid(need) THEN PoolResult("invalid time lock", 0)
     ELSE IF p.Type = "AssetToTimeLock"
     THEN (IF p.AssetID = SystemAssetID THEN PoolResult("", p.Value)
           ELSE IF GetBalance(bal, p.AssetID, from) < p.Value
           THEN PoolResult("AssetToTimeLock: not enough asset", 0)
           ELSE PoolResult("", 0))
     ELSE IF p.Type \in {"TimeLockToTimeLock", "TimeLockToAsset"}
     THEN (IF TLCmp(timeLockBalance, need) < 0
           THEN PoolResult("not enough time lock balance", 0)
           ELSE PoolResult("", 0))
     ELSE IF p.Type = "SmartTransfer"
     THEN (IF ~IsSmartTransferEnabled(nextBlockNumber)
           THEN PoolResult("SendTimeLock not enabled", 0)
           ELSE IF TLCmp(timeLockBalance, need) < 0
           THEN (IF timeLockValue + GetBalance(bal, p.AssetID, from) < p.Value
                 THEN PoolResult("SendTimeLock: not enough balance", 0)
                 ELSE PoolResult("", p.Value - timeLockValue))
           ELSE PoolResult("", 0))
     ELSE PoolResult("", 0)

\* case common.BuyTicketFunc of validateFsnCallTx; headTime is currBlockHeader.Time
PoolBuyTicket(tlb, from, p, headTime, now) ==
  LET value == TicketPrice(0)
      need == TimeLockItem(MaxUint64(p.Start, now), p.End, value)
  IN IF ~BuyTicketParamCheck(p, headTime) THEN PoolResult("invalid param", 0)
     ELSE IF ~ItemIsValid(need) THEN PoolResult("invalid time lock", 0)
     ELSE IF TLCmp(GetTimeLockBalance(tlb, SystemAssetID, from), need) < 0
     THEN PoolResult("", value)
     ELSE PoolResult("", 0)

\* case common.AssetValueChangeFunc of validateFsnCallTx
PoolAssetValueChange(bal, reg, from, p) ==
  IF ~AssetValueChangeParamCheck(p) THEN PoolResult("invalid param", 0)
  ELSE IF ~HasAsset(reg, p.AssetID) THEN PoolResult("asset not found", 0)
  ELSE IF ~GetAsset(reg, p.AssetID).CanChange THEN PoolResult("asset can't inc or dec", 0)
  ELSE IF GetAsset(reg, p.AssetID).Owner # from
  THEN PoolResult("can only be changed by owner", 0)
  ELSE IF GetAsset(reg, p.AssetID).Owner # p.To /\ ~p.IsInc
  THEN PoolResult("decrement can only happen to asset's own account", 0)
  ELSE IF ~p.IsInc /\ GetBalance(bal, p.AssetID, p.To) < p.Value
  THEN PoolResult("not enough asset", 0)
  ELSE PoolResult("", 0)

\* the switch of validateFsnCallTx over the tags modelled here (the swap tags are
\* not); an unknown tag takes the default case
PoolSwitch(bal, tlb, nots, reg, rs, from, tx, nextBlockNumber, headTime, now) ==
  LET p == tx.Data
  IN IF tx.Func = "GenNotationFunc"
     THEN (IF GetNotation(nots, from) # 0 THEN PoolResult("Account has a notation", 0)
           ELSE PoolResult("", 0))
     ELSE IF tx.Func = "GenAssetFunc"
     THEN (IF ~GenAssetParamCheck(p) THEN PoolResult("invalid param", 0)
           ELSE IF HasAsset(reg, NewAssetID) THEN PoolResult("asset exists", 0)
           ELSE PoolResult("", 0))
     ELSE IF tx.Func = "SendAssetFunc"
     THEN (IF ~SendAssetParamCheck(p) THEN PoolResult("invalid param", 0)
           ELSE IF p.AssetID = SystemAssetID THEN PoolResult("", p.Value)
           ELSE IF GetBalance(bal, p.AssetID, from) < p.Value
           THEN PoolResult("not enough asset", 0)
           ELSE PoolResult("", 0))
     ELSE IF tx.Func = "TimeLockFunc"
     THEN PoolTimeLock(bal, tlb, from, p, nextBlockNumber, now)
     ELSE IF tx.Func = "BuyTicketFunc"
     THEN PoolBuyTicket(tlb, from, p, headTime, now)
     ELSE IF tx.Func = "AssetValueChangeFunc"
     THEN PoolAssetValueChange(bal, reg, from, p)
     ELSE IF tx.Func = "EmptyFunc" THEN PoolResult("", 0)
     ELSE IF tx.Func = "ReportIllegalFunc"
     THEN (IF IsReportExist(rs, p) THEN PoolResult("report exists", 0)
           ELSE PoolResult("", 0))
     ELSE PoolResult("Unsupported FsnCall func", 0)

\* TxPool.validateFsnCallTx: "" when the transaction is admitted
validateFsnCallTx(bal, tlb, nots, reg, rs, from, tx, nextBlockNumber, headTime, now) ==
  LET r == PoolSwitch(bal, tlb, nots, reg, rs, from, tx, nextBlockNumber, headTime, now)
      mgval == tx.GasValue + GetFsnCallFee(tx.Func) + r.fsnValue
  IN IF r.err # "" THEN r.err
     ELSE IF GetBalance(bal, SystemAssetID, from) < mgval THEN "insufficient balance"
     ELSE ""

\* the error handleFsnCall returns for the transaction in the current state ("" when
\* it returns nil); now is the wall clock read by the TimeLockToAsset guard
handleFsnCallError(from, tx, now) ==
  LET p == tx.Data
  IN IF tx.Func = "GenNotationFunc"
     THEN GenNotation(notations, notationCount, notationLookup, from).err
     ELSE IF tx.Func = "GenAssetFunc"
     THEN GenAssetResult(balances, assets, from, NewAssetID, p).err
     ELSE IF tx.Func = "SendAssetFunc"
     THEN SendAssetResult(balances, timeLockBalances, from, p).err
     ELSE IF tx.Func = "TimeLockFunc"
     THEN TimeLockResult(balances, timeLockBalances, from, p, timestamp, now, height).err
     ELSE IF tx.Func = "BuyTicketFunc"
     THEN BuyTicketResult(balances, timeLockBalances, tickets, from, p, timestamp,
                          height).err
     ELSE IF tx.Func = "AssetValueChangeFunc"
     THEN AssetValueChangeResult(balances, assets, from, p).err
     ELSE IF tx.Func = "ReportIllegalFunc"
     THEN (IF ~IsMultipleMiningCheckingEnabled(height) THEN "report not enabled"
           ELSE IF IsReportExist(reports, p) THEN "report exists"
           ELSE "")
     ELSE "Unsupported"

\* the call transactions looked at, of every tag modelled and of a tag no case names
Txs ==
  LET calls ==
        {<<"GenNotationFunc", 0>>, <<"EmptyFunc", 0>>, <<"UnknownFunc", 0>>}
          \cup {<<"GenAssetFunc", p>> : p \in AllGenAssetParams}
          \cup {<<"SendAssetFunc", p>> : p \in SendAssetParams({SystemAssetID, UserAssetID})}
          \cup {<<"TimeLockFunc", p>> : p \in TimeLockParams({SystemAssetID})}
          \cup {<<"BuyTicketFunc", p>> : p \in BuyTicketParams}
          \cup {<<"AssetValueChangeFunc", p>> : p \in AllAssetValueChangeParams}
          \cup {<<"ReportIllegalFunc", p>> : p \in Reports}
  IN {Tx(c[1], c[2], g) : c \in calls, g \in {0, 1}}

\* C20: for every call transaction and every state, if handleFsnCall on that state
\* for the same sender, at height head + 1 and with the same timestamp, returns an
\* error, then validateFsnCallTx returns an error: the pool admits no call, of any
\* tag, that the dispatcher rejects.
C20_PoolRejectsWhatDispatcherRejects ==
  \A from \in Accounts, tx \in Txs :
    handleFsnCallError(from, tx, timestamp) # "" =>
      validateFsnCallTx(balances, timeLockBalances, notations, assets, reports, from,
                        tx, height, timestamp, timestamp) # ""


(* ------------------------ the pool's fsnValue (C21) -------------------- *)
\* the SendAsset and TimeLock transactions on the system asset and on a user asset
ValueTxs ==
  LET calls ==
        {<<"SendAssetFunc", p>> : p \in SendAssetParams({SystemAssetID, UserAssetID})}
          \cup {<<"TimeLockFunc", p>> : p \in TimeLockParams({SystemAssetID, UserAssetID})}
  IN {Tx(c[1], c[2], g) : c \in calls, g \in {0, 1}}

\* C21: the amount validateFsnCallTx requires of the sender's system-asset balance
\* is gas * price + call fee + fsnValue, where fsnValue counts only amounts of the
\* system asset: a SendAsset, AssetToTimeLock or SmartTransfer on any other asset
\* contributes 0, and a transaction that passes the switch is rejected for
\* insufficient funds exactly when the system-asset balance is below that sum.
C21_OnlySystemAssetCounts ==
  \A from \in Accounts, tx \in ValueTxs :
    LET r == PoolSwitch(balances, timeLockBalances, notations, assets, reports, from,
                        tx, height, timestamp, timestamp)
        counted == IF tx.Data.AssetID = SystemAssetID THEN r.fsnValue ELSE 0
    IN r.err = "" =>
         /\ r.fsnValue = counted
         /\ (validateFsnCallTx(balances, timeLockBalances, notations, assets, reports,
                               from, tx, height, timestamp, timestamp)
               = "insufficient balance")
              <=> (GetBalance(balances, SystemAssetID, from)
                     < tx.GasValue + GetFsnCallFee(tx.Func) + counted)

(* ------------- what the pool validation does to its state (C22) --------- *)
\* StateDB.GetOrNewStateObject: the object of addr, created when there is none
GetOrNewStateObject(data, addr) ==
  IF addr \in DOMAIN data THEN data ELSE Put(data, addr, NewAccountData)

HasEntry(list, assetID) == \E i \in 1..Len(list) : list[i] = assetID

\* stateObject.balanceAssetIndex: an asset without an entry gets one appended
balanceAssetIndex(acc, assetID) ==
  IF HasEntry(acc.BalancesHash, assetID) THEN acc
  ELSE [acc EXCEPT !.BalancesHash = Append(@, assetID)]

\* stateObject.timeLockAssetIndex: an asset without an entry gets one appended
timeLockAssetIndex(acc, assetID) ==
  IF HasEntry(acc.TimeLockBalancesHash, assetID) THEN acc
  ELSE [acc EXCEPT !.TimeLockBalancesHash = Append(@, assetID)]

\* StateDB.GetBalance -> stateObject.Balance: the state objects after the read
ReadBalance(data, assetID, addr) ==
  IF addr \in DOMAIN data THEN [data EXCEPT ![addr] = balanceAssetIndex(@, assetID)]
  ELSE data

\* StateDB.GetTimeLockBalance -> stateObject.TimeLockBalance: the state objects
\* after the read
ReadTimeLockBalance(data, assetID, addr) ==
  IF addr \in DOMAIN data THEN [data EXCEPT ![addr] = timeLockAssetIndex(@, assetID)]
  ELSE data

\* StateDB.GetStructData(addr, key): the state objects after the read
ReadStructData(data, addr) == GetOrNewStateObject(data, addr)

\* case common.RecallSwapFunc of validateFsnCallTx
PoolRecallSwap(sw, from, p) ==
  IF ~HasSwap(sw, p.SwapID) THEN PoolResult("RecallSwap: Swap not found", 0)
  ELSE IF GetSwap(sw, p.SwapID).Owner # from
  THEN PoolResult("Must be swap onwer can recall", 0)
  ELSE IF ~RecallSwapParamCheck(p, GetSwap(sw, p.SwapID)) THEN PoolResult("invalid param", 0)
  ELSE PoolResult("", 0)

\* the state objects after the TimeLockFunc case of validateFsnCallTx
PoolTimeLockReads(data, bal, tlb, from, p0, nextBlockNumber, now) ==
  LET p == TimeLockAdjust(p0)
      start == MaxUint64(p.StartTime, now)
      need == TimeLockItem(start, p.EndTime, p.Value)
      held == ReadTimeLockBalance(data, p.AssetID, from)
  IN IF \/ p0.Type = "TimeLockToAsset" /\ p0.StartTime > now
        \/ p.To = NoAddress
        \/ ~TimeLockParamCheck(p, now)
        \/ ~ItemIsValid(need)
     THEN data
     ELSE IF p.Type = "AssetToTimeLock"
     THEN (IF p.AssetID = SystemAssetID THEN data ELSE ReadBalance(data, p.AssetID, from))
     ELSE IF p.Type \in {"TimeLockToTimeLock", "TimeLockToAsset"} THEN held
     ELSE IF p.Type = "SmartTransfer"
     THEN (IF ~IsSmartTransferEnabled(nextBlockNumber) THEN data
           ELSE IF TLCmp(GetTimeLockBalance(tlb, p.AssetID, from), need) < 0
           THEN ReadBalance(held, p.AssetID, from)
           ELSE held)
     ELSE data

\* the state objects after the switch of validateFsnCallTx
PoolSwitchReads(data, bal, tlb, reg, from, tx, nextBlockNumber, headTime, now) ==
  LET p == tx.Data
  IN IF tx.Func = "GenAssetFunc"
     THEN (IF ~GenAssetParamCheck(p) THEN data ELSE ReadStructData(data, "AssetKeyAddress"))
     ELSE IF tx.Func = "SendAssetFunc"
     THEN (IF ~SendAssetParamCheck(p) \/ p.AssetID = SystemAssetID THEN data
           ELSE ReadBalance(data, p.AssetID, from))
     ELSE IF tx.Func = "TimeLockFunc"
     THEN PoolTimeLockReads(data, bal, tlb, from, p, nextBlockNumber, now)
     ELSE IF tx.Func = "BuyTicketFunc"
     THEN (IF \/ ~BuyTicketParamCheck(p, headTime)
              \/ ~ItemIsValid(TimeLockItem(MaxUint64(p.Start, now), p.End, TicketPrice(0)))
           THEN data
           ELSE ReadTimeLockBalance(data, SystemAssetID, from))
     ELSE IF tx.Func = "AssetValueChangeFunc"
     THEN (IF ~AssetValueChangeParamCheck(p) THEN data
           ELSE IF PoolAssetValueChange(bal, reg, from, p).err
                     \in {"", "not enough asset"} /\ ~p.IsInc
           THEN ReadBalance(ReadStructData(data, "AssetKeyAddress"), p.AssetID, p.To)
           ELSE ReadStructData(data, "AssetKeyAddress"))
     ELSE IF tx.Func = "RecallSwapFunc" THEN ReadStructData(data, "SwapKeyAddress")
     ELSE data

\* the error validateFsnCallTx returns ("" when the transaction is admitted) and the
\* state objects of pool.currentState when it returns
PoolValidation(data, bal, tlb, nots, reg, sw, rs, from, tx, nextBlockNumber, headTime, now) ==
  LET err == IF tx.Func = "RecallSwapFunc"
             THEN (IF PoolRecallSwap(sw, from, tx.Data).err # ""
                   THEN PoolRecallSwap(sw, from, tx.Data).err
                   ELSE IF GetBalance(bal, SystemAssetID, from)
                             < tx.GasValue + GetFsnCallFee(tx.Func)
                   THEN "insufficient balance"
                   ELSE "")
             ELSE validateFsnCallTx(bal, tlb, nots, reg, rs, from, tx, nextBlockNumber,
                                    headTime, now)
      after == PoolSwitchReads(data, bal, tlb, reg, from, tx, nextBlockNumber, headTime,
                               now)
  IN [err |-> err,
      data |-> IF err \in {"", "insufficient balance"}
               THEN ReadBalance(after, SystemAssetID, from)
               ELSE after]

\* the call transactions offered to the pool
PoolTxs ==
  Txs \cup ValueTxs \cup {Tx("RecallSwapFunc", p, g) : p \in RecallSwapParams, g \in {0, 1}}

\* pool.validateTx hands a transaction of sender from to validateFsnCallTx
ValidateTx(from, tx) ==
  /\ accountData' = PoolValidation(accountData, balances, timeLockBalances, notations,
                                   assets, swaps, reports, from, tx, height, timestamp,
                                   timestamp).data
  /\ UNCHANGED <<balances, timeLockBalances, notations, notationCount, notationLookup,
                 assets, swaps, multiSwaps, tickets, reports, height, timestamp, log,
                 calcInput, calcOutput, poolAll, keyStorage, ticketStore, adders>>

NextPool == \E from \in Accounts, tx \in PoolTxs : ValidateTx(from, tx)

SpecPool == Init /\ [][NextPool]_vars

\* C22: validateFsnCallTx leaves the state it reads as it found it, for every
\* transaction and whatever it returns: no state object is created and no balance or
\* time-lock entry is added to an account.
C22_ValidationReadsOnly == [][accountData' = accountData]_vars

(* ------------------- one buy-ticket per sender (C23) ------------------- *)
NoEntry == <<NoAddress, Tx("none", 0, 0)>>

IsBuyTicketTx(tx) == tx.Func = "BuyTicketFunc"

\* the entries of pool.all at which the Range callback of validateAddFsnCallTx
\* returns false: the transaction itself and the buy-ticket transactions of its sender
RangeStops(all, from, tx) ==
  {e \in all : e = <<from, tx>> \/ (IsBuyTicketTx(e[2]) /\ e[1] = from)}

\* where the Range over the map can stop: at any of these entries, the iteration
\* order being unspecified, or at the end when there is none
RangeOutcomes(all, from, tx) ==
  IF RangeStops(all, from, tx) = {} THEN {NoEntry} ELSE RangeStops(all, from, tx)

KeepOld(all, old) == all

\* pool.removeTx(oldTxHash, true)
RemoveOld(all, old) == all \ {old}

\* TxPool.validateAddFsnCallTx for a transaction validateFsnCallTx answered err0 to,
\* the Range having stopped at stop: the error ("" for nil) and pool.all
validateAddFsnCallTx(all, err0, from, tx, stop) ==
  IF err0 # "" THEN [err |-> err0, all |-> all]
  ELSE IF ~IsBuyTicketTx(tx) \/ stop = NoEntry THEN [err |-> "", all |-> all]
  ELSE IF stop = <<from, tx>>
  THEN [err |-> "has already bought a ticket in txpool", all |-> all]
  ELSE [err |-> "", all |-> RemoveOld(all, stop)]

\* what validateFsnCallTx answers in the current state
ValidationNow(from, tx) ==
  PoolValidation(accountData, balances, timeLockBalances, notations, assets, swaps,
                 reports, from, tx, height, timestamp, timestamp)

\* the transactions submitted: two buy-ticket transactions that differ in their gas
\* and one transaction of another kind
AdmitTxs ==
  {Tx("BuyTicketFunc", p, g) : p \in UnitTicketParams, g \in {0, 1}}
    \cup {Tx("GenNotationFunc", 0, 0)}

\* pool.add: the transaction is validated and, when accepted, enters pool.all
AddTx(from, tx) ==
  \E stop \in RangeOutcomes(poolAll, from, tx) :
    LET r == validateAddFsnCallTx(poolAll, ValidationNow(from, tx).err, from, tx, stop)
    IN /\ poolAll' = IF r.err = "" THEN r.all \cup {<<from, tx>>} ELSE r.all
       /\ accountData' = ValidationNow(from, tx).data
       /\ UNCHANGED <<balances, timeLockBalances, notations, notationCount,
                      notationLookup, assets, swaps, multiSwaps, tickets, reports,
                      height, timestamp, log, calcInput, calcOutput, keyStorage, ticketStore, adders>>

\* a pending transaction leaves the pool (mined or evicted)
DropTx(e) ==
  /\ e \in poolAll
  /\ poolAll' = poolAll \ {e}
  /\ UNCHANGED <<balances, timeLockBalances, notations, notationCount, notationLookup,
                 assets, swaps, multiSwaps, tickets, reports, height, timestamp, log,
                 calcInput, calcOutput, accountData, keyStorage, ticketStore, adders>>

NextAdmit ==
  \/ SendAssetCall(UnitSendAssetParams)
  \/ \E from \in Accounts, tx \in AdmitTxs : AddTx(from, tx)
  \/ \E e \in poolAll : DropTx(e)

SpecAdmit == Init /\ [][NextAdmit]_vars

BuyTicketTxsOf(all, from) == {e \in all : IsBuyTicketTx(e[2]) /\ e[1] = from}

\* C23: the pool never holds two buy-ticket transactions of one sender; when
\* validateAddFsnCallTx accepts a buy-ticket transaction of A, no other buy-ticket
\* transaction of A is left in the pool and the transactions of other kinds and of
\* other senders are all still there; a buy-ticket transaction that is in the pool
\* is rejected when submitted again, and nothing is removed.
C23_OneBuyTicketPerSender ==
  /\ \A from \in Accounts : Cardinality(BuyTicketTxsOf(poolAll, from)) <= 1
  /\ \A from \in Accounts, tx \in AdmitTxs :
       IsBuyTicketTx(tx) =>
         \A stop \in RangeOutcomes(poolAll, from, tx) :
           LET r == validateAddFsnCallTx(poolAll, ValidationNow(from, tx).err, from, tx,
                                         stop)
           IN /\ <<from, tx>> \in poolAll => r.err # "" /\ r.all = poolAll
              /\ r.err = "" =>
                   /\ BuyTicketTxsOf(r.all, from) = {}
                   /\ r.all = poolAll \ BuyTicketTxsOf(poolAll, from)
              /\ r.err # "" => r.all = poolAll

\* a2 has a buy-ticket transaction pending, a1 has one and a transaction of another
\* kind, and a1's other buy-ticket transaction would be accepted in its place
C23_Witness ==
  /\ BuyTicketTxsOf(poolAll, "a2") # {}
  /\ <<"a1", Tx("GenNotationFunc", 0, 0)>> \in poolAll
  /\ \E tx \in AdmitTxs, old \in BuyTicketTxsOf(poolAll, "a1") :
       /\ IsBuyTicketTx(tx) /\ old # <<"a1", tx>>
       /\ validateAddFsnCallTx(poolAll, ValidationNow("a1", tx).err, "a1", tx, old).err = ""

(* ---------------- the precompiled contract (C24, C25) ------------------ *)
\* a 32-byte word read as a big-endian integer: <<hi, lo>> stands for hi * 2^64 + lo
ZeroWord == <<0, 0>>

\* common.FcInvalidSendAssetFlag, one more than the last flag
FcInvalidSendAssetFlag == 6

FcSendAsset == 1

\* an input: its whole words, one per position of the layout [funcTag][assetID]
\* [addr][value][start][end][flag], and the bytes that follow the last whole word
InputLen(input) == 32 * Len(input.words) + input.extra

\* getData(c.input, pos, 32) for the k-th word: what lies after the input reads as zero
WordAt(input, k) ==
  IF k <= Len(input.words) THEN input.words[k]
  ELSE IF k = 2 THEN "0x00" ELSE IF k = 3 THEN NoAddress ELSE ZeroWord

\* common.GetUint64: the value and whether it overflows 64 bits
GetUint64(w) == [value |-> w[2], overflow |-> w[1] # 0]

ParseUnchecked(input, time) ==
  [err |-> "",
   p |-> [asset |-> WordAt(input, 2), address |-> WordAt(input, 3),
          value |-> WordAt(input, 4), start |-> WordAt(input, 5)[2],
          end |-> WordAt(input, 6)[2], flag |-> WordAt(input, 7)[2]]]

\* FSNContract.parseParams at block time time: the error ("" for nil) and the params
parseParams(input, time) ==
  LET start == GetUint64(WordAt(input, 5))
      end == GetUint64(WordAt(input, 6))
      biFlag == WordAt(input, 7)
      adjStart == IF start.value < time THEN time ELSE start.value
      adjEnd == IF end.value = 0 THEN TimeLockForever ELSE end.value
      p == [asset |-> WordAt(input, 2), address |-> WordAt(input, 3),
            value |-> WordAt(input, 4), start |-> adjStart, end |-> adjEnd,
            flag |-> biFlag[2]]
  IN IF start.overflow \/ end.overflow THEN [err |-> "value overflow", p |-> p]
     ELSE IF biFlag[1] # 0 \/ biFlag[2] >= FcInvalidSendAssetFlag
     THEN [err |-> "invalid send asset flag", p |-> p]
     ELSE IF InputLen(input) # 224 THEN [err |-> "wrong length of input", p |-> p]
     ELSE IF adjStart > adjEnd THEN [err |-> "wrong time range", p |-> p]
     ELSE [err |-> "", p |-> p]

\* a Contract: who called it, and whether that caller is itself a Contract (then
\* with the address that called the caller) or an account
NewContract(callerAddress, byContract, parentCallerAddress) ==
  [CallerAddress |-> callerAddress,
   caller |-> [isContract |-> byContract, CallerAddress |-> parentCallerAddress]]

\* Contract.GetParentCaller
GetParentCaller(contract) ==
  IF ~contract.caller.isContract THEN [err |-> "must call by contract", addr |-> NoAddress]
  ELSE [err |-> "", addr |-> contract.caller.CallerAddress]

\* Contract.Caller
Caller(contract) == contract.CallerAddress

\* evm.CanTransferTimeLock, evm.TransferTimeLock: the sender's plain balance covers
\* the value and moves to the recipient
CanTransferTimeLock(bal, from, p) ==
  /\ p.value[1] = 0
  /\ IF p.asset \in AssetIDs THEN GetBalance(bal, p.asset, from) >= p.value[2]
     ELSE p.value[2] = 0

TransferTimeLock(bal, from, to, p) ==
  AddBalance(SubBalance(bal, from, p.asset, p.value[2]), to, p.asset, p.value[2])

\* FSNContract.sendAsset: the error, the balances after it and the account debited
sendAsset(bal, contract, input, time) ==
  LET parsed == parseParams(input, time)
      from == Caller(contract)
  IN IF GetParentCaller(contract).err # ""
     THEN [err |-> GetParentCaller(contract).err, bal |-> bal, from |-> NoAddress]
     ELSE IF parsed.err # "" THEN [err |-> parsed.err, bal |-> bal, from |-> NoAddress]
     ELSE IF ~CanTransferTimeLock(bal, from, parsed.p)
     THEN [err |-> "not enough balance", bal |-> bal, from |-> NoAddress]
     ELSE [err |-> "", bal |-> TransferTimeLock(bal, from, parsed.p.address, parsed.p),
           from |-> from]

\* FSNContract.Run: the function tag is the low byte of the first word
Run(bal, contract, input, time) ==
  IF InputLen(input) >= 32 /\ WordAt(input, 1)[2] % 256 = FcSendAsset
  THEN sendAsset(bal, contract, input, time)
  ELSE [err |-> "unknown func type", bal |-> bal, from |-> NoAddress]

\* the contract frames: the precompile called by an account, or by the contract at
\* one address that another address called
Contracts ==
  {NewContract(a, FALSE, a) : a \in Accounts}
    \cup {NewContract(a, TRUE, b) : a \in Accounts, b \in Accounts}

\* the seven-word inputs
FullInputs ==
  {[words |-> <<tag, asset, to, <<0, v>>, start, end, flag>>, extra |-> 0] :
     tag \in {<<0, 1>>, <<0, 257>>},
     asset \in {SystemAssetID, UserAssetID}, to \in {"a1"}, v \in {0, 1},
     start \in {ZeroWord, <<0, 2>>, <<1, 0>>},
     end \in {ZeroWord, <<0, 1>>, <<1, 1>>},
     flag \in {<<0, 4>>, <<0, 6>>, <<1, 0>>}}

\* inputs of other lengths: a valid input cut short, or with bytes after it
ValidInput ==
  [words |-> <<<<0, 1>>, SystemAssetID, "a2", <<0, 1>>, ZeroWord, ZeroWord, <<0, 4>>>>,
   extra |-> 0]

OtherLengths ==
  {[words |-> SubSeq(ValidInput.words, 1, n), extra |-> e] : n \in 0..7, e \in {0, 1, 31}}
    \cup {[words |-> Append(ValidInput.words, ZeroWord), extra |-> 0]}

Inputs == FullInputs \cup OtherLengths

\* the inputs the contracts call the precompile with: transfers of one unit, and one
\* that is a byte too long
CallInputs ==
  {[ValidInput EXCEPT !.words[2] = asset, !.words[3] = to] :
     asset \in {SystemAssetID, UserAssetID}, to \in Accounts}
    \cup {[ValidInput EXCEPT !.extra = 1]}

\* a call of the precompile's address at block time time; before hard fork 2 no
\* precompile is there
FSNContractCall(contract, input, time) ==
  /\ IsHardFork2(height)
  /\ time >= timestamp
  /\ balances' = Run(balances, contract, input, time).bal
  /\ UNCHANGED <<timeLockBalances, notations, notationCount, notationLookup, assets,
                 swaps, multiSwaps, tickets, reports, height, timestamp, log,
                 calcInput, calcOutput, accountData, poolAll, keyStorage, ticketStore, adders>>

NextContract ==
  \/ NewBlock
  \/ SendAssetCall(UnitSendAssetParams)
  \/ \E p \in AllLockParams :
       /\ p.Type = "AssetToTimeLock" /\ p.To = "a1"
       /\ TimeLockFunc("a1", p, timestamp) /\ Small
  \/ \E c \in Contracts, input \in CallInputs : FSNContractCall(c, input, timestamp)

SpecContract == Init /\ [][NextContract]_vars

\* C24: the precompile's sendAsset called by an account fails with "must call by
\* contract" and changes nothing; when it succeeds, the account it debited is the
\* parent caller of the precompile's contract.
C24_DebitsParentCaller ==
  \A c \in Contracts, input \in Inputs, time \in Time :
    LET r == sendAsset(balances, c, input, time)
    IN /\ ~c.caller.isContract => r.err = "must call by contract" /\ r.bal = balances
       /\ r.err = "" => r.from = GetParentCaller(c).addr

\* C25: the precompile's sendAsset rejects, leaving the balances as they are, every
\* input that is not 224 bytes long, whose start or end word does not fit in 64
\* bits, whose flag is not below FcInvalidSendAssetFlag, or whose start, raised to
\* the block time when smaller, is after its end, an end of 0 standing for forever;
\* and it succeeds only when CanTransferTimeLock holds for the sender.
C25_RejectsMalformedInput ==
  \A c \in Contracts, input \in Inputs, time \in Time :
    LET r == sendAsset(balances, c, input, time)
        start == WordAt(input, 5)
        end == WordAt(input, 6)
        flag == WordAt(input, 7)
        from == IF start[2] < time THEN time ELSE start[2]
        to == IF end[2] = 0 THEN TimeLockForever ELSE end[2]
        malformed ==
          \/ InputLen(input) # 224
          \/ start[1] # 0 \/ end[1] # 0
          \/ flag[1] # 0 \/ flag[2] >= FcInvalidSendAssetFlag
          \/ from > to
    IN time >= timestamp =>
         /\ malformed => r.err # "" /\ r.bal = balances
         /\ r.err = "" =>
              CanTransferTimeLock(balances, Caller(c),
                                  [asset |-> WordAt(input, 2), value |-> WordAt(input, 4)])

\* after hard fork 2 the precompile has moved a unit of the user asset to a1, and
\* the same input with one byte more is rejected for its length
C25_Witness ==
  /\ IsHardFork2(height)
  /\ GetBalance(balances, UserAssetID, "a1") = 1
  /\ Run(balances, NewContract("a2", TRUE, "a1"),
         [ValidInput EXCEPT !.words[2] = UserAssetID, !.words[3] = "a1", !.extra = 1],
         timestamp).err = "wrong length of input"

(* ----------------------- draining an account (C26) --------------------- *)
\* an address no state object exists for
Stranger == "a3"

\* ApplyVote1HardFork: TransferAll from an address of the drain list to the refund
\* address
ApplyVote1HardFork(addr, refund) == addr # refund /\ TransferAll(addr, refund)

\* the tickets of every entry of owner
RECURSIVE TicketsOwnedBy(_, _)
TicketsOwnedBy(tk, owner) ==
  IF tk = << >> THEN << >>
  ELSE (IF Head(tk).Owner = owner THEN Head(tk).Tickets ELSE << >>)
       \o TicketsOwnedBy(Tail(tk), owner)

\* tickets that last forever or expire at time 1, while at most two are held
DrainTicketCall ==
  \E from \in Accounts, p \in {[Start |-> TimeLockNow, End |-> e] : e \in {1, TimeLockForever}} :
    /\ Len(TicketsOwnedBy(tickets, "a1")) + Len(TicketsOwnedBy(tickets, "a2")) < 2
    /\ BuyTicketFunc(from, p)

NextDrain ==
  \/ NewBlock
  \/ SendAssetCall(UnitSendAssetParams)
  \/ DrainTicketCall
  \/ GenNotationCall
  \/ \E addr \in Accounts \cup {Stranger}, refund \in Accounts :
       ApplyVote1HardFork(addr, refund)

SpecDrain == Init /\ [][NextDrain]_vars

\* the value at time t of the tickets in bodies that are live at ts
RECURSIVE LiveTicketsAt(_, _, _)
LiveTicketsAt(bodies, ts, t) ==
  IF bodies = << >> THEN 0
  ELSE (IF /\ Head(bodies).ExpireTime > ts
           /\ Head(bodies).StartTime <= t /\ t <= Head(bodies).ExpireTime
        THEN TicketValue(Head(bodies)) ELSE 0)
       + LiveTicketsAt(Tail(bodies), ts, t)

\* what TransferAll(from, to) leaves behind for an account from and another to
Drained(from, to) ==
  /\ \A id \in AssetIDs :
       /\ GetBalance(balances', id, from) = 0
       /\ GetTimeLockBalance(timeLockBalances', id, from) = EmptyTimeLock
       /\ GetBalance(balances', id, to)
            = GetBalance(balances, id, to) + GetBalance(balances, id, from)
  /\ GetNotation(notations', from) = 0
  /\ GetNotation(notations, from) # 0 =>
       GetAddressByNotation(notationLookup', GetNotation(notations, from)) = NoAddress
  /\ TicketsOwnedBy(tickets', from) = << >>
  /\ \A t \in Time :
       t >= timestamp =>
         GetTimeLockBalance(timeLockBalances', SystemAssetID, to)[t]
           = GetTimeLockBalance(timeLockBalances, SystemAssetID, to)[t]
               + GetTimeLockBalance(timeLockBalances, SystemAssetID, from)[t]
               + LiveTicketsAt(TicketsOwnedBy(tickets, from), timestamp, t)

TimeLockBalance(assetID, addr) == [addr |-> addr, assetID |-> assetID]

\* the TimeLock a pointer leads to
Deref(tlb, ref) == GetTimeLockBalance(tlb, ref.assetID, ref.addr)

\* z.Add(z, amount) on the TimeLock a pointer leads to
AddInPlace(tlb, ref, amount) ==
  [tlb EXCEPT ![ref.addr][ref.assetID] = TLAdd(Deref(tlb, ref), amount)]

\* a caller takes GetTimeLockBalance(assetID, addr) and adds an item to what it got
MutateReturned(assetID, addr, item) ==
  /\ timeLockBalances'
       = AddInPlace(timeLockBalances, TimeLockBalance(assetID, addr), NewTimeLock(item))
  /\ UNCHANGED <<balances, notations, notationCount, notationLookup, assets, swaps,
                 multiSwaps, tickets, reports, height, timestamp, log, calcInput,
                 calcOutput, accountData, poolAll, keyStorage, ticketStore, adders>>
  /\ \A id \in AssetIDs, t \in Time : Holding(balances', timeLockBalances', id, t) <= 3

NextAlias ==
  \/ NewBlock
  \/ \E p \in AllLockParams :
       /\ p.Type = "AssetToTimeLock" /\ p.To = "a1"
       /\ TimeLockFunc("a1", p, timestamp) /\ Small
  \/ \E assetID \in {SystemAssetID, UserAssetID}, addr \in Accounts :
       MutateReturned(assetID, addr, TimeLockItem(timestamp, TimeLockForever, 1))

SpecAlias == Init /\ [][NextAlias]_vars

\* C27: a caller that changes in place the TimeLock it got from GetTimeLockBalance
\* does not change what GetTimeLockBalance returns afterwards: no stored time-lock
\* balance differs after such a step.
C27_ReturnedValueIndependent ==
  [][(\E assetID \in {SystemAssetID, UserAssetID}, addr \in Accounts :
        MutateReturned(assetID, addr, TimeLockItem(timestamp, TimeLockForever, 1)))
       => timeLockBalances' = timeLockBalances]_vars

(* --------------- SetStructData / GetStructData (C28) ------------------- *)
\* A byte string is a sequence of bytes. Keccak256 is taken to be injective: a
\* storage slot is named by the byte string whose hash is its key. In a byte string
\* the element -n stands for the bytes of keyIndex.Bytes() of the n-th key of
\* StructKeys, the hash of that key as a big-endian integer.
HashLength == 32

Zeros(n) == [i \in 1..n |-> 0]

\* big.NewInt(i).Bytes(): no byte for 0
IndexBytes(i) == IF i = 0 THEN << >> ELSE <<i>>

\* common.IntToBytes / common.BytesToInt on four bytes
IntToBytes(n) == <<(n \div 16777216) % 256, (n \div 65536) % 256, (n \div 256) % 256, n % 256>>

BytesToInt(b) == ((b[1] * 256 + b[2]) * 256 + b[3]) * 256 + b[4]

\* Hash.SetBytes: the bytes right-aligned in the word
SetBytes(b) == Zeros(HashLength - Len(b)) \o b

\* the keys written: two short ones, and for the first of them the byte strings
\* that name the slots of its first and second chunk
StructKeys == << <<1>>, <<2>>, <<-1>>, <<1, -1>> >>

KeyIndexBytes(key) == <<0 - (CHOOSE n \in 1..Len(StructKeys) : StructKeys[n] = key)>>

\* crypto.Keccak256Hash(key): the slot of the size and length of the data under key
InfoSlot(key) == key

\* crypto.Keccak256Hash(tempIndex.Bytes(), keyIndex.Bytes()): the slot of chunk i
ChunkSlot(key, i) == IndexBytes(i) \o KeyIndexBytes(key)

\* stateObject.GetState: a slot never set reads as zero
GetState(slots, slot) == IF slot \in DOMAIN slots THEN slots[slot] ELSE Zeros(HashLength)

\* more bytes than any value written here has
Oversize == <<0 - 1000>>

\* StateDB.GetStructData for a key that is not nil
GetStructData(slots, key) ==
  LET info == GetState(slots, InfoSlot(key))
      size == BytesToInt(SubSeq(info, 1, 4))
      length == BytesToInt(SubSeq(info, HashLength \div 2 + 1, HashLength \div 2 + 4))
      Chunk(i) ==
        LET start == i * HashLength
            end == IF start + HashLength > size THEN size ELSE start + HashLength
            tempData == GetState(slots, ChunkSlot(key, i))
        IN SubSeq(tempData, HashLength - end + start + 1, HashLength)
  IN IF size > 4 * HashLength \/ length > 4 THEN Oversize
     ELSE [j \in 1..size |->
             IF (j - 1) \div HashLength < length
             THEN LET chunk == Chunk((j - 1) \div HashLength)
                  IN chunk[((j - 1) % HashLength) + 1]
             ELSE 0]

\* the slots after the chunk loop of SetStructData, chunks i..length-1
RECURSIVE SetChunks(_, _, _, _, _)
SetChunks(slots, key, value, i, length) ==
  IF i >= length THEN slots
  ELSE LET start == i * HashLength
           end == IF start + HashLength > Len(value) THEN Len(value)
                  ELSE start + HashLength
       IN SetChunks(Put(slots, ChunkSlot(key, i), SetBytes(SubSeq(value, start + 1, end))),
                    key, value, i + 1, length)

\* StateDB.SetStructData for a key and a value that are not nil
SetStructData(st, key, value) ==
  LET size == Len(value)
      length == size \div HashLength + (IF size % HashLength # 0 THEN 1 ELSE 0)
      info == IntToBytes(size) \o Zeros(HashLength \div 2 - 4) \o IntToBytes(length)
                \o Zeros(HashLength \div 2 - 4)
  IN [slots |-> SetChunks(Put(st.slots, InfoSlot(key), info), key, value, 0, length),
      nonce |-> st.nonce + 1]

\* the values written: no byte, one byte, a word less one byte, a word, a word and
\* one byte, two words and one byte; of zero bytes or of bytes 7
StructValues ==
  {[i \in 1..n |-> b] : n \in {0, 1, HashLength - 1, HashLength, HashLength + 1,
                               2 * HashLength + 1},
                        b \in {0, 7}}

MaxWrites == 3

SetStructDataCall(key, value) ==
  /\ keyStorage.nonce < MaxWrites
  /\ keyStorage' = SetStructData(keyStorage, key, value)
  /\ UNCHANGED <<balances, timeLockBalances, notations, notationCount, notationLookup,
                 assets, swaps, multiSwaps, tickets, reports, height, timestamp, log,
                 calcInput, calcOutput, accountData, poolAll, ticketStore, adders>>

NextStruct ==
  \E n \in 1..Len(StructKeys), value \in StructValues :
    SetStructDataCall(StructKeys[n], value)

SpecStruct == Init /\ [][NextStruct]_vars

\* C28: GetStructData returns no byte for a key never written, and after
\* SetStructData(key, value), whatever the length of the value and of what was
\* under the key before, it returns exactly value for that key and, for every other
\* key, what it returned before the write.
C28_StructDataRoundTrip ==
  /\ (keyStorage.nonce = 0 =>
        \A n \in 1..Len(StructKeys) : GetStructData(keyStorage.slots, StructKeys[n]) = << >>)
  /\ [][\A n \in 1..Len(StructKeys), value \in StructValues :
          SetStructDataCall(StructKeys[n], value) =>
            /\ GetStructData(keyStorage'.slots, StructKeys[n]) = value
            /\ \A m \in 1..Len(StructKeys) :
                 m # n => GetStructData(keyStorage'.slots, StructKeys[m])
                            = GetStructData(keyStorage.slots, StructKeys[m])]_vars

(* ------------------ the ticket store: UpdateTickets (C29) --------------- *)
\* rlp.EncodeToBytes(&tickets): the list of the entries, each the list of its owner
\* and of its tickets, each ticket the list of its fields
EncodeTickets(tk) ==
  [i \in 1..Len(tk) |->
     <<tk[i].Owner,
       [j \in 1..Len(tk[i].Tickets) |->
          <<tk[i].Tickets[j].ID, tk[i].Tickets[j].Height,
            tk[i].Tickets[j].StartTime, tk[i].Tickets[j].ExpireTime>>]>>]

\* rlp.DecodeBytes(data, &tickets)
DecodeTickets(list) ==
  [i \in 1..Len(list) |->
     [Owner |-> list[i][1],
      Tickets |-> [j \in 1..Len(list[i][2]) |->
                     [ID |-> list[i][2][j][1], Height |-> list[i][2][j][2],
                      StartTime |-> list[i][2][j][3],
                      ExpireTime |-> list[i][2][j][4]]]]]

\* gzip.NewWriter / gzip.NewReader: a header in front of the payload; the zip of
\* the empty list is not empty
Gzip(blob) == <<"gzip", blob>>
Gunzip(data) == data[2]

\* calcTicketsStorageData(tickets)
calcTicketsStorageData(tk) == Gzip(EncodeTickets(tk))

\* crypto.Keccak256Hash(data)
Keccak256Hash(data) == [zero |-> FALSE, of |-> data]

\* the entries of the ring between start and end, oldest first
RingLen(cts) ==
  (cts.end - cts.start + maxCachedTicketsCount) % maxCachedTicketsCount
RingAt(cts, k) == cts.tickets[(cts.start + k) % maxCachedTicketsCount]

\* CachedTicketSlice.Get(hash): nil when no entry between start and end has the
\* hash; the empty slice for the zero hash
CachedTicketSliceGet(cts, hash) ==
  IF hash = ZeroHash THEN [nil |-> FALSE, tickets |-> << >>]
  ELSE IF \E k \in 0..(RingLen(cts) - 1) : RingAt(cts, k).hash = hash
       THEN LET k == CHOOSE j \in 0..(RingLen(cts) - 1) :
                       /\ RingAt(cts, j).hash = hash
                       /\ \A l \in 0..(j - 1) : RingAt(cts, l).hash # hash
            IN [nil |-> FALSE, tickets |-> RingAt(cts, k).tickets]
       ELSE [nil |-> TRUE, tickets |-> << >>]

\* CachedTicketSlice.Add(hash, tickets): nothing for a hash Get finds; otherwise a
\* copy is written at end, and start moves on when end catches up with it
CachedTicketSliceAdd(cts, hash, tk) ==
  IF ~CachedTicketSliceGet(cts, hash).nil THEN cts
  ELSE LET end1 == (cts.end + 1) % maxCachedTicketsCount
       IN [tickets |-> [cts.tickets EXCEPT ![cts.end] = [hash |-> hash, tickets |-> tk]],
           start |-> IF end1 = cts.start
                     THEN (cts.start + 1) % maxCachedTicketsCount ELSE cts.start,
           end |-> end1]

\* StateDB.AllTickets: the field when it holds entries, else the ring entry of
\* ticketsHash, else the decoded blob of TicketKeyAddress (which is then cached
\* under ticketsHash); ret is what the call returns, tickets the field after it
AllTickets(tk, store) ==
  IF Len(tk) # 0 THEN [ret |-> tk, tickets |-> tk, cache |-> store.cache]
  ELSE LET ts == CachedTicketSliceGet(store.cache, store.ticketsHash)
       IN IF ~ts.nil
          THEN [ret |-> ts.tickets, tickets |-> ts.tickets, cache |-> store.cache]
          ELSE IF Len(store.data) = 0
               THEN [ret |-> << >>, tickets |-> tk, cache |-> store.cache]
               ELSE LET decoded == DecodeTickets(Gunzip(store.data))
                    IN [ret |-> decoded, tickets |-> decoded,
                        cache |-> CachedTicketSliceAdd(store.cache, store.ticketsHash,
                                                       decoded)]

\* TicketsDataSlice.ClearExpiredTickets(timestamp): the tickets with
\* ExpireTime <= timestamp go, and with them the entries left without a ticket
ClearExpiredTickets(tk, ts) ==
  SelectSeq([i \in 1..Len(tk) |->
               [tk[i] EXCEPT !.Tickets = SelectSeq(@, LAMBDA t : t.ExpireTime > ts)]],
            LAMBDA e : Len(e.Tickets) # 0)

\* StateDB.UpdateTickets(blockNumber, timestamp): the field s.tickets without its
\* expired tickets, encoded, written with SetData (which returns the hash of the
\* data) and added to the ring
UpdateTickets(tk, store, ts) ==
  LET cleared == ClearExpiredTickets(tk, ts)
      data    == calcTicketsStorageData(cleared)
      hash    == Keccak256Hash(data)
  IN [tickets |-> cleared,
      store   |-> [data |-> data, ticketsHash |-> store.ticketsHash,
                   cache |-> CachedTicketSliceAdd(store.cache, hash, cleared)],
      hash    |-> hash]

\* the ring entries and the tickets the calls below stop at
MaxCached == 2
MaxTickets == 2

StoreFrame ==
  UNCHANGED <<balances, notations, notationCount, notationLookup, assets, swaps,
              multiSwaps, reports, height, timestamp, log, calcInput, calcOutput,
              accountData, poolAll, keyStorage, adders>>

\* a call of StateDB.AllTickets
AllTicketsCall ==
  LET r == AllTickets(tickets, ticketStore)
  IN /\ tickets' = r.tickets
     /\ ticketStore' = [ticketStore EXCEPT !.cache = r.cache]
     /\ UNCHANGED timeLockBalances
     /\ StoreFrame

\* StateDB.AddTicket(ticket): a ticket of the owner for the block at hand, onto
\* what AllTickets returns
AddTicketCall(owner, expire) ==
  LET r == AllTickets(tickets, ticketStore)
      ticket == [Owner |-> owner, ID |-> TicketID(owner, height), Height |-> height,
                 StartTime |-> timestamp, ExpireTime |-> expire]
  IN /\ ~IsTicketExist(r.ret, ticket.ID)
     /\ Len(AllTicketBodies(r.ret)) < MaxTickets
     /\ tickets' = AddTicket(r.ret, ticket)
     /\ ticketStore' = [ticketStore EXCEPT !.cache = r.cache]
     /\ UNCHANGED timeLockBalances
     /\ StoreFrame

\* StateDB.ClearTickets(from, to, blockNumber, timestamp), on what AllTickets returns
ClearTicketsCall(from, to) ==
  LET r == AllTickets(tickets, ticketStore)
      c == ClearTickets(r.ret, timeLockBalances, from, to, timestamp)
  IN /\ \E i \in 1..Len(r.ret) : r.ret[i].Owner = from
     /\ tickets' = c.tickets
     /\ timeLockBalances' = c.tlb
     /\ ticketStore' = [ticketStore EXCEPT !.cache = r.cache]
     /\ StoreFrame

\* a call of StateDB.UpdateTickets at the time of the block
UpdateTicketsCall ==
  LET r == UpdateTickets(tickets, ticketStore, timestamp)
  IN /\ RingLen(ticketStore.cache) < MaxCached
     /\ tickets' = r.tickets
     /\ ticketStore' = r.store
     /\ UNCHANGED timeLockBalances
     /\ StoreFrame

\* state.New(root, mixDigest): the StateDB of the next block, on the storage the
\* last one left, its field unset and its ticketsHash the content hash of the blob
NewStateDB ==
  /\ Len(ticketStore.data) # 0
  /\ tickets' = << >>
  /\ ticketStore' = [ticketStore EXCEPT !.ticketsHash = Keccak256Hash(ticketStore.data)]
  /\ UNCHANGED timeLockBalances
  /\ StoreFrame

StoreOwners == {"a1", "a2"}

NextStore ==
  \/ NewBlock
  \/ AllTicketsCall
  \/ \E owner \in StoreOwners, expire \in {timestamp + 1, MaxTime} :
       AddTicketCall(owner, expire)
  \/ \E from \in StoreOwners : ClearTicketsCall(from, "a3")
  \/ UpdateTicketsCall
  \/ NewStateDB

SpecStore == Init /\ [][NextStore]_vars

\* the tickets of a slice, each with its owner, as a set
TicketSet(tk) ==
  {AllTicketBodies(tk)[i] : i \in 1..Len(AllTicketBodies(tk))}

\* C29: after UpdateTickets(height, ts) returns, the ticket set of the StateDB is
\* the set AllTickets would have returned before the call without the tickets with
\* ExpireTime <= ts, the blob at the ticket address is the encoding of that set,
\* the returned hash is the Keccak256 of the blob, and the ring cache yields that
\* set under that hash.
C29_UpdateTickets ==
  \A ts \in timestamp..MaxTime :
    LET prior == AllTickets(tickets, ticketStore).ret
        r     == UpdateTickets(tickets, ticketStore, ts)
        found == CachedTicketSliceGet(r.store.cache, r.hash)
    IN /\ TicketSet(r.tickets) = {t \in TicketSet(prior) : t.ExpireTime > ts}
       /\ r.store.data = calcTicketsStorageData(r.tickets)
       /\ DecodeTickets(Gunzip(r.store.data)) = r.tickets
       /\ r.hash = Keccak256Hash(r.store.data)
       /\ ~found.nil
       /\ TicketSet(found.tickets) = TicketSet(r.tickets)

(* ------------------ ReportIllegal, once per report (C30) ---------------- *)
\* the payloads: for a miner and a height the two headers the miner signed, and a
\* payload that proves nothing
NoProof == [Coinbase |-> "", Number |-> 0]

ReportPayloads ==
  {[Coinbase |-> a, Number |-> n] : a \in Accounts, n \in 1..2} \cup {NoProof}

\* datong.CheckAddingReport: the two headers are a proof of double mining
CheckAddingReport(report) == report.Coinbase \in Accounts

\* an AddReport that finds no report recorded
NoReportAlreadyExist(rs, report) == FALSE

\* the guard of StateDB.AddReport: the report is recorded already
ReportAlreadyExist(rs, report) == IsReportExist(rs, report)

\* case common.ReportIllegalFunc, the whole case: the fork gate, the verifier,
\* AddReport, then ProcessReport, which deletes the tickets of the double miner
ReportIllegalResult(rs, tk, report, h) ==
  IF ~IsMultipleMiningCheckingEnabled(h)
  THEN [err |-> "report not enabled", reports |-> rs, tickets |-> tk]
  ELSE IF ~CheckAddingReport(report)
  THEN [err |-> "check report failed", reports |-> rs, tickets |-> tk]
  ELSE IF ReportAlreadyExist(rs, report)
  THEN [err |-> "AddReport error: report exists", reports |-> rs, tickets |-> tk]
  ELSE [err |-> "", reports |-> AddReport(rs, report),
        tickets |-> DeleteTickets(tk, report.Coinbase)]

\* a ReportIllegal call of any sender with any payload, accepted or refused
ReportIllegalCall(from, report) ==
  LET r == ReportIllegalResult(reports, tickets, report, height)
  IN /\ reports' = r.reports
     /\ tickets' = r.tickets
     /\ log' = IF r.err = "" THEN AddLog("ReportIllegalFunc", "", "", "") ELSE NoLog
     /\ UNCHANGED <<balances, timeLockBalances, notations, notationCount,
                    notationLookup, assets, swaps, multiSwaps, height, timestamp,
                    calcInput, calcOutput, accountData, poolAll, keyStorage,
                    ticketStore, adders>>

NextReport ==
  \/ NewBlock
  \/ SendAssetCall(UnitSendAssetParams)
  \/ \E from \in Accounts : BuyTicketBy(from)
  \/ \E from \in Accounts, report \in ReportPayloads : ReportIllegalCall(from, report)

SpecReport == Init /\ [][NextReport]_vars

\* C30: a ReportIllegal call before the multiple-mining fork returns an error and
\* changes nothing; after the fork a call that succeeds records its payload, a
\* recorded payload stays recorded in every later state, and every later call that
\* carries a recorded payload returns an error and deletes no ticket.
C30_ReportOnce ==
  [][\A report \in ReportPayloads :
       /\ IsReportExist(reports, report) => IsReportExist(reports', report)
       /\ \A from \in Accounts :
            ReportIllegalCall(from, report) =>
              LET r == ReportIllegalResult(reports, tickets, report, height)
              IN /\ r.err = "" => IsReportExist(reports', report)
                 /\ (~IsMultipleMiningCheckingEnabled(height)
                       \/ IsReportExist(reports, report))
                      => /\ r.err # ""
                         /\ UNCHANGED <<balances, timeLockBalances, notations,
                                        notationCount, notationLookup, assets, swaps,
                                        multiSwaps, tickets, reports>>]_vars

\* a recorded report whose miner holds a ticket bought since
C30_Witness ==
  \E report \in ReportPayloads :
    /\ IsReportExist(reports, report)
    /\ IsMultipleMiningCheckingEnabled(height)
    /\ TicketsOwnedBy(tickets, report.Coinbase) # << >>

(* ---------------------- the ring of cached tickets (C31) ---------------- *)
\* the n-th of a row of distinct hashes, none of them the zero hash
NthHash(n) == [zero |-> FALSE, of |-> <<n>>]

\* how many hashes of the row have been added: the number of the entry before end
Added(cts) ==
  IF cts.end = cts.start THEN 0
  ELSE cts.tickets[(cts.end + maxCachedTicketsCount - 1) % maxCachedTicketsCount].hash.of[1]

\* the Add calls explored
MaxAdds == 103

StoreOnlyFrame ==
  UNCHANGED <<balances, timeLockBalances, notations, notationCount, notationLookup,
              assets, swaps, multiSwaps, tickets, reports, height, timestamp, log,
              calcInput, calcOutput, accountData, poolAll, keyStorage, adders>>

\* cachedTicketSlice.Add(hash, tickets) with the next hash of the row
AddNextCall ==
  /\ Added(ticketStore.cache) < MaxAdds
  /\ ticketStore' =
       [ticketStore EXCEPT !.cache =
          CachedTicketSliceAdd(@, NthHash(Added(ticketStore.cache) + 1), << >>)]
  /\ StoreOnlyFrame

\* cachedTicketSlice.Add(hash, tickets) with a hash the ring holds
AddAgainCall(n) ==
  /\ ~CachedTicketSliceGet(ticketStore.cache, NthHash(n)).nil
  /\ ticketStore' =
       [ticketStore EXCEPT !.cache = CachedTicketSliceAdd(@, NthHash(n), << >>)]
  /\ StoreOnlyFrame

NextRing ==
  \/ AddNextCall
  \/ \E n \in {1, MaxAdds - 2} : AddAgainCall(n)

SpecRing == Init /\ [][NextRing]_vars

Min(a, b) == IF a < b THEN a ELSE b

\* C31: after k Add calls with distinct non-zero hashes the ring retains exactly
\* the min(k, 101) hashes added last: Get finds each of them and none added earlier.
C31_RingRetainsLatest ==
  LET k == Added(ticketStore.cache)
  IN \A n \in 1..k :
       ~CachedTicketSliceGet(ticketStore.cache, NthHash(n)).nil
         <=> n > k - Min(k, maxCachedTicketsCount)

(* ------------------ concurrent Add calls on the ring (C32) -------------- *)
\* the goroutines that call Add, and the hashes they add
Adders == {"g1", "g2"}
RaceHashes == {NthHash(n) : n \in 1..3}

\* the live entries the calls below stop at
MaxLive == 4

RaceFrame ==
  UNCHANGED <<balances, timeLockBalances, notations, notationCount, notationLookup,
              assets, swaps, multiSwaps, tickets, reports, height, timestamp, log,
              calcInput, calcOutput, accountData, poolAll, keyStorage>>

\* Add, up to taking the write lock: Get under the read lock; a hash that is found
\* ends the call, one that is not is copied and waits for the write lock
AddCheck(g, hash) ==
  /\ adders[g] = ZeroHash
  /\ RingLen(ticketStore.cache) < MaxLive
  /\ adders' = [adders EXCEPT ![g] =
                  IF ~CachedTicketSliceGet(ticketStore.cache, hash).nil
                  THEN ZeroHash ELSE hash]
  /\ UNCHANGED ticketStore
  /\ RaceFrame

\* Add, under the write lock: the element is written at end; end and start move
AddWrite(g) ==
  /\ adders[g] # ZeroHash
  /\ LET cts == ticketStore.cache
         end1 == (cts.end + 1) % maxCachedTicketsCount
     IN ticketStore' =
          [ticketStore EXCEPT !.cache =
             [tickets |-> [cts.tickets EXCEPT
                             ![cts.end] = [hash |-> adders[g], tickets |-> << >>]],
              start |-> IF end1 = cts.start
                        THEN (cts.start + 1) % maxCachedTicketsCount ELSE cts.start,
              end |-> end1]]
  /\ adders' = [adders EXCEPT ![g] = ZeroHash]
  /\ RaceFrame

NextRace ==
  \/ \E g \in Adders, hash \in RaceHashes : AddCheck(g, hash)
  \/ \E g \in Adders : AddWrite(g)

SpecRace == Init /\ [][NextRace]_vars

\* C32: whatever the interleaving of concurrent Add calls, no two live entries of
\* the ring have the same hash, and an Add of a hash that is present leaves start,
\* end and every slot as they were.
C32_NoDuplicateEntries ==
  LET cts == ticketStore.cache
  IN /\ \A i, j \in 0..(RingLen(cts) - 1) :
          RingAt(cts, i).hash = RingAt(cts, j).hash => i = j
     /\ \A hash \in RaceHashes :
          ~CachedTicketSliceGet(cts, hash).nil
            => CachedTicketSliceAdd(cts, hash, << >>) = cts

(* ---------------- what the ring holds under a hash (C33) ---------------- *)
\* AddCachedTickets(hash, tickets): the hash must be the one of the encoded slice
AddCachedTickets(cts, hash, tk) ==
  IF hash # Keccak256Hash(calcTicketsStorageData(tk))
  THEN [err |-> "AddCachedTickets: hash mismatch", cache |-> cts]
  ELSE [err |-> "", cache |-> CachedTicketSliceAdd(cts, hash, tk)]

\* a call of AddCachedTickets with the slice of the StateDB, under its own hash or
\* under the hash the StateDB was opened with
AddCachedTicketsCall(hash) ==
  /\ RingLen(ticketStore.cache) < MaxCached
  /\ ticketStore' = [ticketStore EXCEPT
                       !.cache = AddCachedTickets(@, hash, tickets).cache]
  /\ UNCHANGED <<tickets, timeLockBalances>>
  /\ StoreFrame

\* the process starts again on the stored state: var cachedTicketSlice is the empty
\* ring, and the StateDB is opened anew
Restart ==
  /\ Len(ticketStore.data) # 0
  /\ tickets' = << >>
  /\ ticketStore' = [data |-> ticketStore.data,
                     ticketsHash |-> Keccak256Hash(ticketStore.data),
                     cache |-> NewCachedTicketSlice]
  /\ UNCHANGED timeLockBalances
  /\ StoreFrame

NextCache ==
  \/ NewBlock
  \/ AllTicketsCall
  \/ \E owner \in StoreOwners, expire \in {timestamp + 1, MaxTime} :
       AddTicketCall(owner, expire)
  \/ \E from \in StoreOwners : ClearTicketsCall(from, "a3")
  \/ UpdateTicketsCall
  \/ NewStateDB
  \/ Restart
  \/ \E hash \in {Keccak256Hash(calcTicketsStorageData(tickets)),
                  ticketStore.ticketsHash} : AddCachedTicketsCall(hash)

SpecCache == Init /\ [][NextCache]_vars

\* C33: every entry the ring yields has as its hash the Keccak256 of the encoding
\* of its ticket set, whichever call added it, and AddCachedTickets with another
\* hash than that of the encoded slice returns an error and leaves the ring as it is.
C33_EntriesMatchTheirHash ==
  LET cts == ticketStore.cache
  IN /\ \A i \in 0..(RingLen(cts) - 1) :
          RingAt(cts, i).hash
            = Keccak256Hash(calcTicketsStorageData(RingAt(cts, i).tickets))
     /\ \A hash \in {ticketStore.ticketsHash, NthHash(1)} :
          hash # Keccak256Hash(calcTicketsStorageData(tickets))
            => /\ AddCachedTickets(cts, hash, tickets).err # ""
               /\ AddCachedTickets(cts, hash, tickets).cache = cts

(* ------------------- removed tickets stay removed (C34) ---------------- *)
\* C34: once ClearTickets has removed the tickets of an owner, AllTickets (and with
\* it IsTicketExist and GetTicket) on that StateDB shows none of them, also when
\* the removal left the ticket set empty.
C34_RemovedStaysRemoved ==
  [][\A from \in StoreOwners :
       ClearTicketsCall(from, "a3") =>
         LET before == TicketsOwnedBy(AllTickets(tickets, ticketStore).ret, from)
             after  == AllTickets(tickets', ticketStore').ret
         IN /\ TicketsOwnedBy(after, from) = << >>
            /\ \A i \in 1..Len(before) : ~IsTicketExist(after, before[i].ID)]_vars

(* ------------- a swap is recalled or taken up only once (C35) ----------- *)
\* every RecallSwap and TakeSwap that names the ID returns "Swap not found" and
\* leaves balances, time locks, swaps and notations as they are
SwapCallsRefused(bal, tlb, sw, nots, lookup, ts, h, id) ==
  /\ \A from \in Accounts :
       RecallSwapResult(bal, tlb, sw, nots, lookup, from, [SwapID |-> id], ts)
         = SwapResult("Swap not found", bal, tlb, sw, nots, lookup)
  /\ \A from \in Accounts, func \in {"TakeSwapFunc", "TakeSwapFuncExt"},
        p \in TakeSwapParams :
       p.SwapID = id =>
         TakeSwapResult(bal, tlb, sw, nots, lookup, from, func, p, ts, h)
           = SwapResult("Swap not found", bal, tlb, sw, nots, lookup)

\* the same of RecallMultiSwap and TakeMultiSwap
MultiSwapCallsRefused(bal, tlb, msw, ts, h, id) ==
  /\ \A from \in Accounts :
       RecallMultiSwapResult(bal, tlb, msw, from, [SwapID |-> id], ts)
         = MultiSwapResult("Swap not found", bal, tlb, msw)
  /\ \A from \in Accounts, p \in TakeSwapParams :
       p.SwapID = id =>
         TakeMultiSwapResult(bal, tlb, msw, from, p, ts, h)
           = MultiSwapResult("Swap not found", bal, tlb, msw)

NextOnce ==
  \/ NewBlock
  \/ MakeSwapCall(MakeSwapParams({SystemAssetID}, {UserAssetID},
                                 {<<TimeLockNow, TimeLockForever>>, <<1, TimeLockForever>>},
                                 {<<TimeLockNow, TimeLockForever>>}, {{}}))
  \/ RecallSwapCall
  \/ TakeSwapCall
  \/ MakeMultiSwapCall(MakeMultiSwapParams(SystemAssetID, UserAssetID))
  \/ RecallMultiSwapCall
  \/ TakeMultiSwapCall

SpecOnce == Init /\ [][NextOnce]_vars

\* the call logged last succeeded, named the ID, and was a recall or a take that
\* deleted the swap
RecalledOrTakenUp(lg, id) ==
  /\ lg.err = ""
  /\ lg.id = id
  /\ \/ lg.func \in {"RecallSwapFunc", "RecallMultiSwapFunc"}
     \/ lg.func \in {"TakeSwapFunc", "TakeSwapFuncExt", "TakeMultiSwapFunc"}
          /\ lg.kind = "true"

PayoutParams ==
  {[p EXCEPT !.MinFromAmount = m] :
     p \in MakeSwapParams({SystemAssetID}, {UserAssetID},
                          {<<TimeLockNow, TimeLockForever>>, <<1, TimeLockForever>>},
                          {<<TimeLockNow, TimeLockForever>>}, {{}}),
     m \in {1, MaxValue}}

NextPayout ==
  \/ NewBlock
  \/ MakeSwapCall(PayoutParams)
  \/ RecallSwapCall
  \/ TakeSwapCall

SpecPayout == Init /\ [][NextPayout]_vars

\* the SwapSize a swap still has: none once it is recalled or taken up
SizeLeft(sw, id) == IF HasSwap(sw, id) THEN GetSwap(sw, id).SwapSize ELSE 0

\* C36: every TakeSwap or RecallSwap on a non-USAN swap credits, at every instant, no
\* more of the From asset than MinFromAmount times the SwapSize it takes off the swap
\* (all that is left, at a recall or a full take), so that takes and recall together
\* never pay out more than MinFromAmount times the SwapSize charged at creation; a
\* stored, non-deleted swap has SwapSize > 0; a take whose Size exceeds the SwapSize
\* left returns an error.
C36_PayoutWithinCharge ==
  [][\A id \in SwapIDs :
       /\ HasSwap(swaps', id) => GetSwap(swaps', id).SwapSize > 0
       /\ HasSwap(swaps', id) =>
            \A from \in Accounts, func \in {"TakeSwapFunc", "TakeSwapFuncExt"},
               p \in TakeSwapParams :
              (p.SwapID = id /\ p.Size > GetSwap(swaps', id).SwapSize) =>
                TakeSwapResult(balances', timeLockBalances', swaps', notations',
                               notationLookup', from, func, p, timestamp', height').err # ""
       /\ (HasSwap(swaps, id) /\ swaps'[id] # swaps[id]
             /\ GetSwap(swaps, id).FromAssetID # OwnerUSANAssetID) =>
            LET swap == GetSwap(swaps, id)
            IN \A t \in Time :
                 Holding(balances', timeLockBalances', swap.FromAssetID, t)
                     - Holding(balances, timeLockBalances, swap.FromAssetID, t)
                   <= swap.MinFromAmount * (swap.SwapSize - SizeLeft(swaps', id))]_vars

\* a swap was taken in part and is still stored with the rest of its SwapSize
C36_Witness ==
  /\ log.func \in {"TakeSwapFunc", "TakeSwapFuncExt"}
  /\ log.err = ""
  /\ log.kind = "false"
  /\ \E id \in SwapIDs :
       /\ HasSwap(swaps, id)
       /\ GetSwap(swaps, id).FromAssetID # OwnerUSANAssetID
       /\ GetSwap(swaps, id).SwapSize < MaxSwapSize

(* --------------- checked first, then deducted (C37) --------------------- *)
NextLegs ==
  \/ NewBlock
  \/ LockCall(LockParams(SwapAssetIDs))
  \/ MakeMultiSwapCall(MakeMultiSwapParams(SystemAssetID, UserAssetID))
  \/ RecallMultiSwapCall
  \/ TakeMultiSwapCall

SpecLegs == Init /\ [][NextLegs]_vars

\* the legs a side may have: plain, locked from the next instant on, locked up to the
\* next instant, of one or two units; one leg, or two legs of the same asset
OneLeg(id) ==
  {Leg(id, i[1], i[2], n) : i \in SwapIntervals, n \in {1, MaxValue}}

SameAssetLegs(id) ==
  {<<l>> : l \in OneLeg(id)} \cup {<<l, m>> : l \in OneLeg(id), m \in OneLeg(id)}

BalanceErrors == {"not enough from asset", "not enough time lock or asset balance"}

\* C37: whenever the check of the legs on the copies of the sender's balances and time
\* locks passes, the deduct loop on the state sets no error, also when several legs
\* name the same asset; and whenever MakeMultiSwap or TakeMultiSwap returns a balance
\* error, balances and time-lock balances are as they were.
C37_CheckedDeductNeverFails ==
  /\ \A from \in Accounts, size \in 1..MaxSwapSize,
        legs \in SameAssetLegs(SystemAssetID) \cup SameAssetLegs(UserAssetID) :
       CheckLegs(legs, balances[from], timeLockBalances[from], size, timestamp) = ""
         => DeductLegs(legs, balances, timeLockBalances, from, size, timestamp).err = ""
  /\ \A from \in Accounts, swapId \in SwapIDs, legs \in SameAssetLegs(SystemAssetID),
        size \in 1..MaxSwapSize :
       LET p == [From |-> legs, To |-> <<Leg(UserAssetID, TimeLockNow, TimeLockForever, 1)>>,
                 SwapSize |-> size, Targes |-> {}]
           r == MakeMultiSwapResult(balances, timeLockBalances, swaps, multiSwaps,
                                    notations, assets, from, swapId, p, timestamp)
       IN r.err \in BalanceErrors
            => r.bal = balances /\ r.tlb = timeLockBalances
  /\ \A from \in Accounts, p \in TakeSwapParams :
       LET r == TakeMultiSwapResult(balances, timeLockBalances, multiSwaps, from, p,
                                    timestamp, height)
       IN r.err \in BalanceErrors
            => r.bal = balances /\ r.tlb = timeLockBalances

\* a multi-swap with two legs of the same asset was made, and a take of it by some
\* account returns a balance error
C37_Witness ==
  /\ log.func = "MakeMultiSwapFunc"
  /\ log.err = ""
  /\ \E id \in SwapIDs :
       /\ HasMultiSwap(multiSwaps, id)
       /\ Len(GetMultiSwap(multiSwaps, id).From) = 2
       /\ \E from \in Accounts, p \in TakeSwapParams :
            p.SwapID = id
              /\ TakeMultiSwapResult(balances, timeLockBalances, multiSwaps, from, p,
                                     timestamp, height).err \in BalanceErrors

(* ------------- Total is what the accounts hold (C38) -------------------- *)
\* the plain balances of asset id, summed over the accounts
RECURSIVE BalanceSum(_, _, _)
BalanceSum(bal, S, id) ==
  IF S = {} THEN 0
  ELSE LET a == CHOOSE x \in S : TRUE
       IN GetBalance(bal, id, a) + BalanceSum(bal, S \ {a}, id)

\* C38: after any sequence of GenAsset, SendAsset and AssetValueChange calls on a user
\* asset, with no time-lock or swap call on it, the recorded Total of the asset is the
\* sum over all accounts of the plain balance of that asset, and is not negative.
C38_TotalIsSumOfBalances ==
  \A id \in {UserAssetID, NewAssetID} :
    HasAsset(assets, id) =>
      /\ GetAsset(assets, id).Total = BalanceSum(balances, Accounts, id)
      /\ GetAsset(assets, id).Total >= 0

\* after a change of its value the generated asset stands at a Total of 2, one unit
\* with each account
C38_Witness ==
  /\ log.func = "AssetValueChangeFunc"
  /\ log.err = ""
  /\ HasAsset(assets, NewAssetID)
  /\ GetAsset(assets, NewAssetID).Total = 2
  /\ \A a \in Accounts : GetBalance(balances, NewAssetID, a) = 1

(* ------------------- the dispatch of Run (C39) -------------------------- *)
\* first words: 0, 1, 2, 256, 257, 2^64 and 2^64 + 1
FirstWords == {<<0, 0>>, <<0, 1>>, <<0, 2>>, <<0, 256>>, <<0, 257>>, <<1, 0>>, <<1, 1>>}

\* the inputs of a call with each of these first words, and the inputs of other lengths
TaggedInputs ==
  {[input EXCEPT !.words[1] = w] : input \in CallInputs, w \in FirstWords}
    \cup OtherLengths

\* C39: Run dispatches to sendAsset only when the first 32-byte word of the input,
\* read as a big-endian integer, equals 1; every other value of that word, also above
\* 255 and above 2^64, and every input shorter than 32 bytes yields the unknown-func
\* error and leaves the state as it is.
C39_RunDispatch ==
  \A c \in Contracts, input \in TaggedInputs :
    LET r == Run(balances, c, input, timestamp)
        isOne == InputLen(input) >= 32 /\ WordAt(input, 1) = <<0, FcSendAsset>>
    IN /\ isOne => r = sendAsset(balances, c, input, timestamp)
       /\ ~isOne => r.err = "unknown func type" /\ r.bal = balances

(* --------------- records that cannot be decoded (C40) ------------------- *)
\* The persisted records (assetPersist, swapPersist, multiSwapPersist,
\* notationPersist) are a Deleted flag and a body; the body stands here for one
\* number between 0 and 127 (Total, SwapSize, Count). RLP writes a list as the byte
\* 192 + n before its n bytes, true as 1, false and 0 as 128, a number 1..127 as itself.
EncodeBool(b) == IF b THEN 1 ELSE 128

EncodeUint(n) == IF n = 0 THEN 128 ELSE n

\* rlp.EncodeToBytes(&swapToSave)
EncodePersist(rec) == <<192 + 3, EncodeBool(rec.Deleted), 192 + 1, EncodeUint(rec.Body)>>

\* var swap swapPersist: the zero value
ZeroPersist == [Deleted |-> FALSE, Body |-> 0]

\* rlp.DecodeBytes(data, &swap): the error, and the struct as the decoder leaves it;
\* the fields read before the error are set, the others keep their zero value
DecodeBytes(data) ==
  LET n == data[1] - 192
      boolOk == n >= 1 /\ data[2] \in {1, 128}
      deleted == boolOk /\ data[2] = 1
      listOk == boolOk /\ n >= 3 /\ data[3] = 192 + 1
      bodyOk == listOk /\ data[4] \in 1..128
      body == IF bodyOk THEN (IF data[4] = 128 THEN 0 ELSE data[4]) ELSE 0
      rec == [Deleted |-> deleted, Body |-> body]
  IN IF Len(data) = 0 THEN [err |-> "EOF", rec |-> ZeroPersist]
     ELSE IF data[1] < 192 THEN [err |-> "expected List", rec |-> ZeroPersist]
     ELSE IF n > Len(data) - 1
     THEN [err |-> "value size exceeds available input size", rec |-> ZeroPersist]
     ELSE IF ~boolOk THEN [err |-> "invalid boolean value", rec |-> rec]
     ELSE IF ~listOk THEN [err |-> "expected List", rec |-> rec]
     ELSE IF ~bodyOk THEN [err |-> "non-canonical integer", rec |-> rec]
     ELSE IF n > 3 THEN [err |-> "input list has too many elements", rec |-> rec]
     ELSE IF Len(data) > n + 1 THEN [err |-> "more than one value", rec |-> rec]
     ELSE [err |-> "", rec |-> rec]

\* StateDB.GetSwap on the struct data of the swap key address; GetAsset and
\* GetMultiSwap are the same code on their own key address and record
StateDBGetSwap(slots, swapID) ==
  LET data == GetStructData(slots, swapID)
      swap == DecodeBytes(data).rec
  IN IF Len(data) = 0 THEN [err |-> "swap not found", swap |-> 0]
     ELSE IF swap.Deleted THEN [err |-> "swap deleted", swap |-> 0]
     ELSE [err |-> "", swap |-> swap.Body]

\* StateDB.GetNotationCount on the struct data of the notation key address
StateDBGetNotationCount(slots, key) ==
  LET data == GetStructData(slots, key)
  IN IF Len(data) = 0 THEN [err |-> "", count |-> 0]
     ELSE [err |-> "", count |-> DecodeBytes(data).rec.Body]

\* StateDB.AddSwap
StateDBAddSwap(st, swapID, body) ==
  IF StateDBGetSwap(st.slots, swapID).err = "" THEN st
  ELSE SetStructData(st, swapID, EncodePersist([Deleted |-> FALSE, Body |-> body]))

\* StateDB.RemoveSwap
StateDBRemoveSwap(st, swapID) ==
  IF StateDBGetSwap(st.slots, swapID).err # "" THEN st
  ELSE SetStructData(st, swapID,
                     EncodePersist([Deleted |-> TRUE,
                                    Body |-> StateDBGetSwap(st.slots, swapID).swap]))

\* the record keys, and bytes that are no record: a record cut short, a record with
\* a byte after it, and a single byte
PersistKeys == {StructKeys[1], StructKeys[2]}

DamagedValues ==
  LET e == EncodePersist([Deleted |-> FALSE, Body |-> 2])
  IN {SubSeq(e, 1, k) : k \in 1..3} \cup {e \o <<0>>, <<7>>}

PersistFrame ==
  UNCHANGED <<balances, timeLockBalances, notations, notationCount, notationLookup,
              assets, swaps, multiSwaps, tickets, reports, height, timestamp, log,
              calcInput, calcOutput, accountData, poolAll, ticketStore, adders>>

AddSwapStored(swapID, body) ==
  /\ keyStorage.nonce < MaxWrites
  /\ StateDBGetSwap(keyStorage.slots, swapID).err # ""
  /\ keyStorage' = StateDBAddSwap(keyStorage, swapID, body)
  /\ PersistFrame

RemoveSwapStored(swapID) ==
  /\ keyStorage.nonce < MaxWrites
  /\ StateDBGetSwap(keyStorage.slots, swapID).err = ""
  /\ keyStorage' = StateDBRemoveSwap(keyStorage, swapID)
  /\ PersistFrame

NextPersist ==
  \/ \E swapID \in PersistKeys, body \in 0..2 : AddSwapStored(swapID, body)
  \/ \E swapID \in PersistKeys : RemoveSwapStored(swapID)
  \/ \E key \in PersistKeys, value \in DamagedValues : SetStructDataCall(key, value)

SpecPersist == Init /\ [][NextPersist]_vars

\* C40: GetAsset, GetSwap, GetMultiSwap and GetNotationCount return an error whenever
\* the stored record exists but cannot be decoded, never a zero-valued record as if
\* it had been found, and an absent or tombstoned record yields a not-found error.
C40_UndecodableIsAnError ==
  \A key \in PersistKeys :
    LET data == GetStructData(keyStorage.slots, key)
        d == DecodeBytes(data)
        swap == StateDBGetSwap(keyStorage.slots, key)
        count == StateDBGetNotationCount(keyStorage.slots, key)
    IN /\ (Len(data) # 0 /\ d.err # "") => swap.err # "" /\ count.err # ""
       /\ (Len(data) = 0 \/ (d.err = "" /\ d.rec.Deleted)) =>
            swap.err # "" /\ count.err # ""

====
